---- MODULE Spec2Model ----
(***************************************************************************)
(* Routing and cycling core of the MIDI controller                         *)
(* (src/midi_controller): the cycle tracker (cycle.py), the match rule     *)
(* evaluator and the message broker (broker.py) and the device listeners   *)
(* (devices.py).                                                           *)
(*                                                                         *)
(* The specifications share the definitions of the code:                   *)
(*   SpecCycle   - a client calling the CycleManager API directly;         *)
(*   Spec        - the broker handling one event after another             *)
(*                 (MessageBroker.handle run to completion per event);     *)
(*   SpecThreads - the device listeners of DeviceManager.run, one thread   *)
(*                 per device, each calling handle from its own thread;    *)
(*   SpecMatch   - the match rule evaluator on rules and events;           *)
(*   SpecConfig  - config.py parsing a mapping entry;                      *)
(*   SpecManager, SpecListeners - DeviceManager.run and stop;              *)
(*   SpecRace    - get_index called by two threads, statement by statement;*)
(*   SpecStartup - cmd_run loading the action registry;                    *)
(*   SpecLegacy  - the legacy CycleState beside the CycleManager;          *)
(*   SpecWizard  - the setup wizard capturing controls and writing rules.  *)
(***************************************************************************)
EXTENDS Integers, Sequences, FiniteSets, TLC

VARIABLES
    cycle_manager,  \* the CycleManager: [indices, last_key]
    calls,          \* SpecCycle: the API calls made so far, with their results
    dispatched,     \* Spec: one record per handle call, with what it did
    listening,      \* Spec, SpecThreads: devices whose listener is still running
    pc,             \* SpecThreads: where each listener thread is
    current,        \* SpecThreads: the message a thread's handle is working on
    cursor,         \* SpecThreads: position of a thread's handle in its list
    match_rule,     \* SpecMatch: the MatchRule under evaluation
    matched,        \* SpecMatch: matches_message(rule, e) for each event e
    rule_signature, \* SpecMatch: match_rule_signature(rule)
    raw_config,     \* SpecConfig: the YAML data of one mapping entry and the presets
    loaded,         \* SpecConfig: what parse_mapping_entry made of it
    ports,          \* SpecManager: per device, the messages arrived and not yet read
    arrived,        \* SpecManager: per device, how many messages have arrived
    tasks,          \* SpecManager: per device, the state of its listener task
    manager,        \* SpecManager: the DeviceManager: _running, run and stop
    delivered,      \* SpecManager: the callback calls made so far
    frame,          \* SpecRace: per thread, the locals of its get_index call
    start,          \* SpecRace: the CycleManager before the calls
    actions_dir,    \* SpecStartup: the actions directory: whether it exists, its files
    _action_registry, \* SpecStartup: the registry of actions/base.py
    startup,        \* SpecStartup: where cmd_run is, and the actions it got
    cycle_state,    \* SpecLegacy: the CycleState of midi_listener.py
    advanced,       \* SpecLegacy: the indices both trackers returned so far
    controls,       \* SpecWizard: the controls captured by _process_message
    config_block    \* SpecWizard: the mappings generate_config_block wrote

config_vars == <<raw_config, loaded>>

manager_vars == <<ports, arrived, tasks, manager, delivered>>

race_vars == <<frame, start>>

discovery_vars == <<actions_dir, _action_registry, startup>>

legacy_vars == <<cycle_state, advanced>>

wizard_vars == <<controls, config_block>>

vars == <<cycle_manager, calls, dispatched, listening, pc, current, cursor,
          match_rule, matched, rule_signature, config_vars, manager_vars,
          race_vars, discovery_vars, legacy_vars, wizard_vars>>

\* The variables of the loader, of the device manager and of the get_index
\* steps while another specification runs.
ConfigIdle == raw_config = <<>> /\ loaded = <<>>

ManagerIdle ==
    /\ ports = <<>>
    /\ arrived = <<>>
    /\ tasks = <<>>
    /\ manager = <<>>
    /\ delivered = <<>>

RaceIdle == frame = <<>> /\ start = <<>>

DiscoveryIdle == actions_dir = <<>> /\ _action_registry = <<>> /\ startup = <<>>

LegacyIdle == cycle_state = <<>> /\ advanced = <<>>

WizardIdle == controls = <<>> /\ config_block = <<>>

(***************************************************************************)
(* Bounds of the model.                                                    *)
(***************************************************************************)
MaxCalls == 5
MaxEvents == 4
\* SpecMatch: optional fields set in a rule, and the largest channel, the
\* largest control/note/program number and the largest value/velocity.
MaxFields == 2
MaxChannel == 1
MaxNumber == 1
MaxLevel == 2

MaxArrivals == 4

(***************************************************************************)
(* Python's None for an optional integer field, and for an optional value. *)
(***************************************************************************)
None == -1

NoValue == "None"

\* The element of a set of one element.  An intermediate result r is bound
\* as in TheOne({F(r) : r \in {e}}), so that e is computed once.
TheOne(S) == CHOOSE x \in S : TRUE

(***************************************************************************)
(* cycle.py                                                                *)
(***************************************************************************)
CycleKey(device, match_signature) ==
    [device |-> device, match_signature |-> match_signature]

\* last_key = None: no key has the shape of this one (device names and
\* signatures are non-empty).
NoKey == CycleKey("", "")

CycleManager == [indices |-> <<>>, last_key |-> NoKey]

\* Plausible slip: the index is reset when another control was pressed in
\* between (what the class docstring says), instead of being kept.
get_index_resets(cm, key, preset_count) ==
    IF preset_count = 0
    THEN [cm |-> cm, ret |-> 0]
    ELSE LET seen == IF key \in DOMAIN cm.indices /\ cm.last_key = key
                     THEN cm.indices
                     ELSE (key :> 0) @@ cm.indices
             adv  == IF cm.last_key = key /\ key \in DOMAIN cm.indices
                     THEN [seen EXCEPT ![key] = (seen[key] + 1) % preset_count]
                     ELSE seen
         IN  [cm |-> [indices |-> adv, last_key |-> key], ret |-> adv[key]]

\* Plausible slip: the first press already advances.
get_index_eager(cm, key, preset_count) ==
    IF preset_count = 0
    THEN [cm |-> cm, ret |-> 0]
    ELSE LET seen == IF key \in DOMAIN cm.indices
                     THEN cm.indices
                     ELSE (key :> 0) @@ cm.indices
             adv  == [seen EXCEPT ![key] = (seen[key] + 1) % preset_count]
         IN  [cm |-> [indices |-> adv, last_key |-> key], ret |-> adv[key]]

\* Plausible slip: the index is advanced without wrapping.
get_index_nowrap(cm, key, preset_count) ==
    IF preset_count = 0
    THEN [cm |-> cm, ret |-> 0]
    ELSE LET seen == IF key \in DOMAIN cm.indices
                     THEN cm.indices
                     ELSE (key :> 0) @@ cm.indices
             adv  == IF cm.last_key = key
                     THEN [seen EXCEPT ![key] = seen[key] + 1]
                     ELSE seen
         IN  [cm |-> [indices |-> adv, last_key |-> key], ret |-> adv[key]]

\* Plausible slip: a call with no presets is remembered as the last key.
get_index_zero_marks(cm, key, preset_count) ==
    IF preset_count = 0
    THEN [cm |-> [cm EXCEPT !.last_key = key], ret |-> 0]
    ELSE LET seen == IF key \in DOMAIN cm.indices
                     THEN cm.indices
                     ELSE (key :> 0) @@ cm.indices
             adv  == IF cm.last_key = key
                     THEN [seen EXCEPT ![key] = (seen[key] + 1) % preset_count]
                     ELSE seen
         IN  [cm |-> [indices |-> adv, last_key |-> key], ret |-> adv[key]]

\* CycleManager.get_index: the manager after the call and the value returned.
get_index(cm, key, preset_count) ==
    IF preset_count = 0
    THEN [cm |-> cm, ret |-> 0]
    ELSE LET seen == IF key \in DOMAIN cm.indices
                     THEN cm.indices
                     ELSE (key :> 0) @@ cm.indices
             adv  == IF cm.last_key = key
                     THEN [seen EXCEPT ![key] = (seen[key] + 1) % preset_count]
                     ELSE seen
         IN  [cm |-> [indices |-> adv, last_key |-> key], ret |-> adv[key]]

\* CycleManager.reset
reset(cm, key) ==
    [cm EXCEPT !.indices = [k \in (DOMAIN cm.indices) \ {key} |-> cm.indices[k]]]

\* CycleManager.clear
clear(cm) == [indices |-> <<>>, last_key |-> NoKey]

(***************************************************************************)
(* messages.py: the typed MIDI messages.                                   *)
(***************************************************************************)
ControlChange(channel, control, value) ==
    [kind |-> "ControlChange", channel |-> channel, control |-> control,
     value |-> value]

NoteOn(channel, note, velocity) ==
    [kind |-> "NoteOn", channel |-> channel, note |-> note, velocity |-> velocity]

NoteOff(channel, note, velocity) ==
    [kind |-> "NoteOff", channel |-> channel, note |-> note, velocity |-> velocity]

ProgramChange(channel, program) ==
    [kind |-> "ProgramChange", channel |-> channel, program |-> program]

PitchWheel(channel, pitch) ==
    [kind |-> "PitchWheel", channel |-> channel, pitch |-> pitch]

UnknownMessage(raw) == [kind |-> "UnknownMessage", raw |-> raw]

(***************************************************************************)
(* config.py: match rules and mapping entries.                             *)
(***************************************************************************)
\* A MatchRule with only its type set; the optional fields default to None.
MatchRule(type) ==
    [type |-> type, channel |-> None, control |-> None, note |-> None,
     program |-> None, value_min |-> None, value_max |-> None,
     velocity_min |-> None, velocity_max |-> None]

MappingEntry(match, action, params, cycle) ==
    [match |-> match, action |-> action, params |-> params, cycle |-> cycle]

(***************************************************************************)
(* broker.py: the match rule evaluator.                                    *)
(***************************************************************************)
\* Plausible slip: channel and control are rendered with the same tag.
match_rule_signature_same_tag(rule) ==
    rule.type
        \o (IF rule.channel # None THEN "_c" \o ToString(rule.channel) ELSE "")
        \o (IF rule.control # None THEN "_c" \o ToString(rule.control) ELSE "")
        \o (IF rule.note # None THEN "_n" \o ToString(rule.note) ELSE "")
        \o (IF rule.program # None THEN "_p" \o ToString(rule.program) ELSE "")

match_rule_signature(rule) ==
    rule.type
        \o (IF rule.channel # None THEN "_ch" \o ToString(rule.channel) ELSE "")
        \o (IF rule.control # None THEN "_cc" \o ToString(rule.control) ELSE "")
        \o (IF rule.note # None THEN "_n" \o ToString(rule.note) ELSE "")
        \o (IF rule.program # None THEN "_p" \o ToString(rule.program) ELSE "")

type_map ==
    [control_change |-> "ControlChange", note_on |-> "NoteOn",
     note_off |-> "NoteOff", program_change |-> "ProgramChange",
     pitchwheel |-> "PitchWheel"]

\* Plausible slip: the kinds without a check of their own fall through to False.
matches_message_no_fallthrough(rule, msg) ==
    IF rule.type \notin DOMAIN type_map \/ msg.kind # type_map[rule.type]
    THEN FALSE
    ELSE IF rule.channel # None /\ msg.channel # rule.channel
    THEN FALSE
    ELSE IF msg.kind = "ControlChange"
    THEN /\ ~(rule.control # None /\ msg.control # rule.control)
         /\ ~(rule.value_min # None /\ msg.value < rule.value_min)
         /\ ~(rule.value_max # None /\ msg.value > rule.value_max)
    ELSE IF msg.kind \in {"NoteOn", "NoteOff"}
    THEN /\ ~(rule.note # None /\ msg.note # rule.note)
         /\ ~(rule.velocity_min # None /\ msg.velocity < rule.velocity_min)
         /\ ~(rule.velocity_max # None /\ msg.velocity > rule.velocity_max)
    ELSE IF msg.kind = "ProgramChange"
    THEN ~(rule.program # None /\ msg.program # rule.program)
    ELSE FALSE

\* Plausible slip: the lower end of a range is compared strictly.
matches_message_strict_min(rule, msg) ==
    IF rule.type \notin DOMAIN type_map \/ msg.kind # type_map[rule.type]
    THEN FALSE
    ELSE IF rule.channel # None /\ msg.channel # rule.channel
    THEN FALSE
    ELSE IF msg.kind = "ControlChange"
    THEN /\ ~(rule.control # None /\ msg.control # rule.control)
         /\ ~(rule.value_min # None /\ msg.value <= rule.value_min)
         /\ ~(rule.value_max # None /\ msg.value > rule.value_max)
    ELSE IF msg.kind \in {"NoteOn", "NoteOff"}
    THEN /\ ~(rule.note # None /\ msg.note # rule.note)
         /\ ~(rule.velocity_min # None /\ msg.velocity < rule.velocity_min)
         /\ ~(rule.velocity_max # None /\ msg.velocity > rule.velocity_max)
    ELSE IF msg.kind = "ProgramChange"
    THEN ~(rule.program # None /\ msg.program # rule.program)
    ELSE TRUE

\* Plausible slip: the channel constraint is not checked.
matches_message_ignores_channel(rule, msg) ==
    IF rule.type \notin DOMAIN type_map \/ msg.kind # type_map[rule.type]
    THEN FALSE
    ELSE IF msg.kind = "ControlChange"
    THEN /\ ~(rule.control # None /\ msg.control # rule.control)
         /\ ~(rule.value_min # None /\ msg.value < rule.value_min)
         /\ ~(rule.value_max # None /\ msg.value > rule.value_max)
    ELSE IF msg.kind \in {"NoteOn", "NoteOff"}
    THEN /\ ~(rule.note # None /\ msg.note # rule.note)
         /\ ~(rule.velocity_min # None /\ msg.velocity < rule.velocity_min)
         /\ ~(rule.velocity_max # None /\ msg.velocity > rule.velocity_max)
    ELSE IF msg.kind = "ProgramChange"
    THEN ~(rule.program # None /\ msg.program # rule.program)
    ELSE TRUE

\* Plausible slip: a rule whose type is not in type_map is taken to match.
matches_message_any_kind(rule, msg) ==
    IF msg.kind = "UnknownMessage"
    THEN rule.type \notin DOMAIN type_map
    ELSE IF rule.type \in DOMAIN type_map /\ msg.kind # type_map[rule.type]
    THEN FALSE
    ELSE IF rule.channel # None /\ msg.channel # rule.channel
    THEN FALSE
    ELSE IF msg.kind = "ControlChange"
    THEN /\ ~(rule.control # None /\ msg.control # rule.control)
         /\ ~(rule.value_min # None /\ msg.value < rule.value_min)
         /\ ~(rule.value_max # None /\ msg.value > rule.value_max)
    ELSE IF msg.kind \in {"NoteOn", "NoteOff"}
    THEN /\ ~(rule.note # None /\ msg.note # rule.note)
         /\ ~(rule.velocity_min # None /\ msg.velocity < rule.velocity_min)
         /\ ~(rule.velocity_max # None /\ msg.velocity > rule.velocity_max)
    ELSE IF msg.kind = "ProgramChange"
    THEN ~(rule.program # None /\ msg.program # rule.program)
    ELSE TRUE

\* Plausible slip: the value range is applied to the velocity of a note.
matches_message_value_on_notes(rule, msg) ==
    IF rule.type \notin DOMAIN type_map \/ msg.kind # type_map[rule.type]
    THEN FALSE
    ELSE IF rule.channel # None /\ msg.channel # rule.channel
    THEN FALSE
    ELSE IF msg.kind = "ControlChange"
    THEN /\ ~(rule.control # None /\ msg.control # rule.control)
         /\ ~(rule.value_min # None /\ msg.value < rule.value_min)
         /\ ~(rule.value_max # None /\ msg.value > rule.value_max)
    ELSE IF msg.kind \in {"NoteOn", "NoteOff"}
    THEN /\ ~(rule.note # None /\ msg.note # rule.note)
         /\ ~(rule.value_min # None /\ msg.velocity < rule.value_min)
         /\ ~(rule.value_max # None /\ msg.velocity > rule.value_max)
         /\ ~(rule.velocity_min # None /\ msg.velocity < rule.velocity_min)
         /\ ~(rule.velocity_max # None /\ msg.velocity > rule.velocity_max)
    ELSE IF msg.kind = "ProgramChange"
    THEN ~(rule.program # None /\ msg.program # rule.program)
    ELSE TRUE

matches_message(rule, msg) ==
    IF rule.type \notin DOMAIN type_map \/ msg.kind # type_map[rule.type]
    THEN FALSE
    ELSE IF rule.channel # None /\ msg.channel # rule.channel
    THEN FALSE
    ELSE IF msg.kind = "ControlChange"
    THEN /\ ~(rule.control # None /\ msg.control # rule.control)
         /\ ~(rule.value_min # None /\ msg.value < rule.value_min)
         /\ ~(rule.value_max # None /\ msg.value > rule.value_max)
    ELSE IF msg.kind \in {"NoteOn", "NoteOff"}
    THEN /\ ~(rule.note # None /\ msg.note # rule.note)
         /\ ~(rule.velocity_min # None /\ msg.velocity < rule.velocity_min)
         /\ ~(rule.velocity_max # None /\ msg.velocity > rule.velocity_max)
    ELSE IF msg.kind = "ProgramChange"
    THEN ~(rule.program # None /\ msg.program # rule.program)
    ELSE TRUE

(***************************************************************************)
(* The action registry handed to the broker: the built-in actions          *)
(* (actions/homeassistant.py, actions/shell.py) and the example plugin     *)
(* (src/actions/example.py).  An action is called as                       *)
(* action_func(ctx, **params); binding the keywords to the function's      *)
(* parameters raises TypeError when a parameter without default is missing *)
(* or a keyword names no parameter.                                        *)
(***************************************************************************)
Signature(required, optional) == [required |-> required, optional |-> optional]

actions ==
    [ha_toggle     |-> Signature({"entity_id"}, {}),
     ha_brightness |-> Signature({"entity_id"}, {"presets"}),
     ha_color      |-> Signature({"entity_id"}, {"presets"}),
     ha_color_temp |-> Signature({"entity_id"}, {"presets"}),
     shell         |-> Signature({"command"}, {}),
     print_message |-> Signature({}, {"message"})]

\* action_func(ctx, **params) raises.
CallRaises(action_func, params) ==
    \/ ~(action_func.required \subseteq DOMAIN params)
    \/ ~(DOMAIN params \subseteq action_func.required \cup action_func.optional)

(***************************************************************************)
(* The mapping configuration the broker is constructed with, as            *)
(* load_config accepts it (config.py does not validate entries).           *)
(***************************************************************************)
Devices == {"deviceA", "deviceB", "global"}

mappings ==
    [deviceA |-> <<
        \* the bound action is called without its entity_id: it raises
        MappingEntry([MatchRule("control_change") EXCEPT !.control = 1, !.value_max = 63],
                     "ha_toggle", <<>>, FALSE),
        \* an action name that is in no registry
        MappingEntry([MatchRule("control_change") EXCEPT !.control = 1, !.value_max = 63],
                     "nonexistent", [entity_id |-> "light.x"], FALSE),
        \* press (value >= 64) and release (value <= 63) of control 1 cycle
        \* through preset lists of their own
        MappingEntry([MatchRule("control_change") EXCEPT !.control = 1, !.value_min = 64],
                     "print_message",
                     [message |-> "colour", presets |-> <<"a", "b", "c">>], TRUE),
        MappingEntry([MatchRule("control_change") EXCEPT !.control = 1, !.value_max = 63],
                     "print_message", [presets |-> <<"x">>], TRUE),
        \* a plain toggle on control 2
        MappingEntry([MatchRule("control_change") EXCEPT !.control = 2],
                     "ha_toggle", [entity_id |-> "light.x"], FALSE),
        \* control 2 also sets the light from a preset list, without cycling
        MappingEntry([MatchRule("control_change") EXCEPT !.control = 2],
                     "ha_brightness",
                     [entity_id |-> "light.x", presets |-> <<"dim", "bright">>], FALSE),
        MappingEntry([MatchRule("control_change") EXCEPT !.control = 2],
                     "ha_color",
                     [entity_id |-> "light.x", presets |-> <<"red", "blue">>], FALSE),
        MappingEntry([MatchRule("control_change") EXCEPT !.control = 2],
                     "ha_color_temp",
                     [entity_id |-> "light.x", presets |-> <<"warm">>], FALSE) >>,
     deviceB |-> <<
        \* cycle requested without presets: the key absent, and an empty list
        MappingEntry([MatchRule("control_change") EXCEPT !.control = 2],
                     "print_message", [message |-> "plain"], TRUE),
        MappingEntry([MatchRule("control_change") EXCEPT !.control = 2],
                     "shell", [command |-> "true", presets |-> <<>>], TRUE),
        \* two cycling entries for the press of control 1
        MappingEntry([MatchRule("control_change") EXCEPT !.control = 1, !.value_min = 64],
                     "print_message", [presets |-> <<"u", "v", "w">>], TRUE),
        MappingEntry([MatchRule("control_change") EXCEPT !.control = 1, !.value_min = 64],
                     "print_message",
                     [message |-> "again", presets |-> <<"u", "v", "w">>], TRUE),
        \* a cycling entry whose action is in no registry
        MappingEntry([MatchRule("control_change") EXCEPT !.control = 1, !.value_max = 63],
                     "nonexistent", [presets |-> <<"y", "z">>], TRUE),
        \* the release of control 1 cycles through a list of its own
        MappingEntry([MatchRule("control_change") EXCEPT !.control = 1, !.value_max = 63],
                     "print_message", [presets |-> <<"z">>], TRUE) >>,
     global |-> <<
        MappingEntry(MatchRule("note_on"),
                     "print_message", [presets |-> <<"p", "q", "r">>], TRUE),
        MappingEntry([MatchRule("control_change") EXCEPT !.control = 1, !.value_max = 63],
                     "shell", [command |-> "true"], FALSE) >>]

\* The messages the devices send.
Messages ==
    { ControlChange(0, 1, 127), ControlChange(0, 1, 0), ControlChange(0, 2, 127),
      NoteOn(0, 60, 100), UnknownMessage("sysex") }

(***************************************************************************)
(* broker.py: MessageBroker.                                               *)
(***************************************************************************)
\* self.mappings.get(name, [])
mappings_get(name) == IF name \in DOMAIN mappings THEN mappings[name] ELSE <<>>

\* A mapping entry is named by the list it is configured in and its place.
EntryRef(list, idx) == [list |-> list, idx |-> idx]

Entry(ref) == mappings[ref.list][ref.idx]

\* device_mappings + global_mappings of handle.
applicable(device_name) ==
    [i \in 1..Len(mappings_get(device_name)) |-> EntryRef(device_name, i)]
        \o [i \in 1..Len(mappings_get("global")) |-> EntryRef("global", i)]

\* mapping.params.get("presets", [])
presets_of(mapping) ==
    IF "presets" \in DOMAIN mapping.params THEN mapping.params["presets"] ELSE <<>>

\* Plausible slip: the key is built from the rule alone.
cycle_key_no_device(device_name, mapping) ==
    CycleKey("any", match_rule_signature(mapping.match))

\* The CycleKey _invoke_action builds for a cycling mapping.
cycle_key(device_name, mapping) ==
    CycleKey(device_name, match_rule_signature(mapping.match))

(***************************************************************************)
(* actions/base.py: the context handed to every action, and the bodies of  *)
(* the registered actions.  cmd_run builds the Home Assistant client from  *)
(* the configuration (cli.py:39-44); the configuration here has one.  A    *)
(* preset of the Home Assistant actions is a dict (percent, rgb, kelvin);  *)
(* it is named here by its label.                                          *)
(***************************************************************************)
ha_client == "HAClient"

ActionContext(ha, message, device_name, cycle_index, preset_value) ==
    [ha |-> ha, message |-> message, device_name |-> device_name,
     cycle_index |-> cycle_index, preset_value |-> preset_value]

\* What an action body did: the call it made, and the preset it used.
Effect(text, preset) == [text |-> text, preset |-> preset]

\* the presets keyword an action was called with (None by default)
presets_keyword(params) ==
    IF "presets" \in DOMAIN params THEN params["presets"] ELSE <<>>

ha_toggle(ctx, params) ==
    IF ctx.ha = NoValue
    THEN Effect("Error: Home Assistant not configured", NoValue)
    ELSE Effect("toggle_light", NoValue)

ha_brightness(ctx, params) ==
    IF ctx.ha = NoValue
    THEN Effect("Error: Home Assistant not configured", NoValue)
    ELSE IF ctx.preset_value # NoValue
    THEN Effect("set_brightness", ctx.preset_value)
    ELSE IF presets_keyword(params) # <<>>
    THEN Effect("set_brightness", presets_keyword(params)[1])
    ELSE Effect("Error: No brightness preset provided", NoValue)

ha_color(ctx, params) ==
    IF ctx.ha = NoValue
    THEN Effect("Error: Home Assistant not configured", NoValue)
    ELSE IF ctx.preset_value # NoValue
    THEN Effect("set_color", ctx.preset_value)
    ELSE IF presets_keyword(params) # <<>>
    THEN Effect("set_color", presets_keyword(params)[1])
    ELSE Effect("Error: No color preset provided", NoValue)

ha_color_temp(ctx, params) ==
    IF ctx.ha = NoValue
    THEN Effect("Error: Home Assistant not configured", NoValue)
    ELSE IF ctx.preset_value # NoValue
    THEN Effect("set_color_temp", ctx.preset_value)
    ELSE IF presets_keyword(params) # <<>>
    THEN Effect("set_color_temp", presets_keyword(params)[1])
    ELSE Effect("Error: No color temperature preset provided", NoValue)

shell(ctx, params) == Effect("subprocess.run", NoValue)

print_message(ctx, params) == Effect("print", NoValue)

\* action_func(ctx, **params) at broker.py:167: the body runs when the
\* keywords bind to the parameters of the action.
action_func(name, ctx, params) ==
    IF CallRaises(actions[name], params) THEN NoValue
    ELSE IF name = "ha_toggle" THEN ha_toggle(ctx, params)
    ELSE IF name = "ha_brightness" THEN ha_brightness(ctx, params)
    ELSE IF name = "ha_color" THEN ha_color(ctx, params)
    ELSE IF name = "ha_color_temp" THEN ha_color_temp(ctx, params)
    ELSE IF name = "shell" THEN shell(ctx, params)
    ELSE print_message(ctx, params)

\* What one _invoke_action call did.
\* ctx is the ActionContext built (NoValue when the call returned or raised
\* before line 154), effect what the action body did (NoValue when the
\* action was not called or its keywords did not bind).
Invocation(cm, outcome, cycle_index, preset_value, params, ctx, effect) ==
    [cm |-> cm, outcome |-> outcome, cycle_index |-> cycle_index,
     preset_value |-> preset_value, params |-> params,
     ctx |-> ctx, effect |-> effect]

\* Plausible slip: the whole params dict is forwarded, presets included.
_invoke_action_forwards_presets(cm, device_name, message, mapping) ==
    IF mapping.action \notin DOMAIN actions
    THEN Invocation(cm, "unknown", None, NoValue, <<>>, NoValue, NoValue)
    ELSE LET presets == presets_of(mapping)
             cycling == mapping.cycle /\ presets # <<>>
             r       == IF cycling
                        THEN get_index(cm, cycle_key(device_name, mapping), Len(presets))
                        ELSE [cm |-> cm, ret |-> None]
             params  == mapping.params
         IN  IF cycling /\ r.ret >= Len(presets)
             THEN Invocation(r.cm, "IndexError", r.ret, NoValue, <<>>, NoValue, NoValue)
             ELSE Invocation(r.cm,
                             IF CallRaises(actions[mapping.action], params)
                             THEN "error" ELSE "invoked",
                             r.ret,
                             IF cycling THEN presets[r.ret + 1] ELSE NoValue,
                             params,
                             ActionContext(ha_client, message, device_name, r.ret,
                                           IF cycling THEN presets[r.ret + 1] ELSE NoValue),
                             action_func(mapping.action,
                                  ActionContext(ha_client, message, device_name, r.ret,
                                                IF cycling THEN presets[r.ret + 1] ELSE NoValue),
                                  params))

\* Plausible slip: the tracker is asked whenever cycle is set, presets or
\* not, and presets[cycle_index] is read from the empty list.
_invoke_action_cycles_without_presets(cm, device_name, message, mapping) ==
    IF mapping.action \notin DOMAIN actions
    THEN Invocation(cm, "unknown", None, NoValue, <<>>, NoValue, NoValue)
    ELSE LET presets == presets_of(mapping)
             cycling == mapping.cycle
             r       == IF cycling
                        THEN get_index(cm, cycle_key(device_name, mapping), Len(presets))
                        ELSE [cm |-> cm, ret |-> None]
             params  == [k \in (DOMAIN mapping.params) \ {"presets"} |-> mapping.params[k]]
         IN  IF cycling /\ r.ret >= Len(presets)
             THEN Invocation(r.cm, "IndexError", r.ret, NoValue, <<>>, NoValue, NoValue)
             ELSE Invocation(r.cm,
                             IF CallRaises(actions[mapping.action], params)
                             THEN "error" ELSE "invoked",
                             r.ret,
                             IF cycling THEN presets[r.ret + 1] ELSE NoValue,
                             params,
                             ActionContext(ha_client, message, device_name, r.ret,
                                           IF cycling THEN presets[r.ret + 1] ELSE NoValue),
                             action_func(mapping.action,
                                  ActionContext(ha_client, message, device_name, r.ret,
                                                IF cycling THEN presets[r.ret + 1] ELSE NoValue),
                                  params))

\* Plausible slip: an entry that does not cycle gets the first preset of its
\* list as preset_value.
_invoke_action_first_preset_fallback(cm, device_name, message, mapping) ==
    IF mapping.action \notin DOMAIN actions
    THEN Invocation(cm, "unknown", None, NoValue, <<>>, NoValue, NoValue)
    ELSE LET presets == presets_of(mapping)
             cycling == mapping.cycle /\ presets # <<>>
             r       == IF cycling
                        THEN get_index(cm, cycle_key(device_name, mapping), Len(presets))
                        ELSE [cm |-> cm, ret |-> None]
             value   == IF cycling THEN presets[r.ret + 1]
                        ELSE IF presets # <<>> THEN presets[1] ELSE NoValue
             params  == [k \in (DOMAIN mapping.params) \ {"presets"} |-> mapping.params[k]]
         IN  IF cycling /\ r.ret >= Len(presets)
             THEN Invocation(r.cm, "IndexError", r.ret, NoValue, <<>>, NoValue, NoValue)
             ELSE Invocation(r.cm,
                             IF CallRaises(actions[mapping.action], params)
                             THEN "error" ELSE "invoked",
                             r.ret, value, params,
                             ActionContext(ha_client, message, device_name, r.ret, value),
                             action_func(mapping.action,
                                         ActionContext(ha_client, message, device_name,
                                                       r.ret, value),
                                         params))

\* Plausible slip: the tracker is asked before the action is looked up.
_invoke_action_cycles_before_lookup(cm, device_name, message, mapping) ==
    LET presets == presets_of(mapping)
        cycling == mapping.cycle /\ presets # <<>>
        r       == IF cycling
                   THEN get_index(cm, cycle_key(device_name, mapping), Len(presets))
                   ELSE [cm |-> cm, ret |-> None]
        params  == [k \in (DOMAIN mapping.params) \ {"presets"} |-> mapping.params[k]]
    IN  IF cycling /\ r.ret >= Len(presets)
        THEN Invocation(r.cm, "IndexError", r.ret, NoValue, <<>>, NoValue, NoValue)
        ELSE IF mapping.action \notin DOMAIN actions
        THEN Invocation(r.cm, "unknown", None, NoValue, <<>>, NoValue, NoValue)
        ELSE Invocation(r.cm,
                        IF CallRaises(actions[mapping.action], params)
                        THEN "error" ELSE "invoked",
                        r.ret,
                        IF cycling THEN presets[r.ret + 1] ELSE NoValue,
                        params,
                        ActionContext(ha_client, message, device_name, r.ret,
                                      IF cycling THEN presets[r.ret + 1] ELSE NoValue),
                        action_func(mapping.action,
                             ActionContext(ha_client, message, device_name, r.ret,
                                           IF cycling THEN presets[r.ret + 1] ELSE NoValue),
                             params))

\* MessageBroker._invoke_action.  outcome is
\*   "unknown"    the action is not in the registry (warning, return);
\*   "invoked"    the action was called and returned;
\*   "error"      the action was called and raised; caught and printed;
\*   "IndexError" presets[cycle_index] raised: nothing catches it.
_invoke_action(cm, device_name, message, mapping) ==
    IF mapping.action \notin DOMAIN actions
    THEN Invocation(cm, "unknown", None, NoValue, <<>>, NoValue, NoValue)
    ELSE LET presets == presets_of(mapping)
             cycling == mapping.cycle /\ presets # <<>>
             params  == [k \in (DOMAIN mapping.params) \ {"presets"} |-> mapping.params[k]]
         IN  TheOne({ IF cycling /\ r.ret >= Len(presets)
                      THEN Invocation(r.cm, "IndexError", r.ret, NoValue, <<>>, NoValue, NoValue)
                      ELSE Invocation(r.cm,
                                      IF CallRaises(actions[mapping.action], params)
                                      THEN "error" ELSE "invoked",
                                      r.ret,
                                      IF cycling THEN presets[r.ret + 1] ELSE NoValue,
                                      params,
                                      ActionContext(ha_client, message, device_name, r.ret,
                                                    IF cycling THEN presets[r.ret + 1] ELSE NoValue),
                                      action_func(mapping.action,
                                           ActionContext(ha_client, message, device_name, r.ret,
                                                         IF cycling THEN presets[r.ret + 1] ELSE NoValue),
                                           params)) :
                      r \in { IF cycling
                              THEN get_index(cm, cycle_key(device_name, mapping),
                                             Len(presets))
                              ELSE [cm |-> cm, ret |-> None] } })

\* One line of what handle did: the entry, and the outcome of its invocation.
LogItem(ref, r) ==
    [entry |-> ref, action |-> Entry(ref).action, outcome |-> r.outcome,
     cycle_index |-> r.cycle_index, preset_value |-> r.preset_value,
     params |-> r.params, ctx |-> r.ctx, effect |-> r.effect]

\* Plausible slip: the loop invokes every applicable entry, matching or not.
RECURSIVE dispatch_unfiltered(_, _, _, _, _)
dispatch_unfiltered(cm, device_name, message, refs, log) ==
    IF refs = <<>>
    THEN [cm |-> cm, log |-> log, escaped |-> FALSE]
    ELSE LET r == _invoke_action(cm, device_name, message, Entry(Head(refs)))
         IN  IF r.outcome = "IndexError"
             THEN [cm |-> r.cm, log |-> Append(log, LogItem(Head(refs), r)),
                   escaped |-> TRUE]
             ELSE dispatch_unfiltered(r.cm, device_name, message, Tail(refs),
                                      Append(log, LogItem(Head(refs), r)))

\* The loop of handle over the entries refs, from manager cm on.
RECURSIVE dispatch(_, _, _, _, _)
dispatch(cm, device_name, message, refs, log) ==
    IF refs = <<>>
    THEN [cm |-> cm, log |-> log, escaped |-> FALSE]
    ELSE IF ~matches_message(Entry(Head(refs)).match, message)
    THEN dispatch(cm, device_name, message, Tail(refs), log)
    ELSE TheOne({ IF r.outcome = "IndexError"
                  THEN [cm |-> r.cm, log |-> Append(log, LogItem(Head(refs), r)),
                        escaped |-> TRUE]
                  ELSE dispatch(r.cm, device_name, message, Tail(refs),
                                Append(log, LogItem(Head(refs), r))) :
                  r \in {_invoke_action(cm, device_name, message, Entry(Head(refs)))} })

\* MessageBroker.handle: the manager after the call, what was done, and
\* whether an exception left handle.
handle(cm, device_name, message) ==
    dispatch(cm, device_name, message, applicable(device_name), <<>>)

(***************************************************************************)
(* What the broker itself prints: handle prints the device and the message *)
(* of every event (broker.py:114); _invoke_action prints a warning for an  *)
(* unknown action (136) and the error an action raised (169), each naming  *)
(* the action.  It prints nothing else; what an action reports it prints   *)
(* itself.                                                                 *)
(***************************************************************************)
EventLine(device_name, message) ==
    [text |-> "message", device_name |-> device_name, message |-> message]

ActionLine(text, action) == [text |-> text, action |-> action]

\* Plausible slip: a line is printed for an invocation that returned as well.
router_lines_for_every_item(item) ==
    IF item.outcome = "unknown"
    THEN <<ActionLine("Warning: Unknown action", item.action)>>
    ELSE IF item.outcome = "error"
    THEN <<ActionLine("Error in action", item.action)>>
    ELSE <<ActionLine("Invoked", item.action)>>

\* The lines _invoke_action prints for one matched entry.
router_lines(item) ==
    IF item.outcome = "unknown"
    THEN <<ActionLine("Warning: Unknown action", item.action)>>
    ELSE IF item.outcome = "error"
    THEN <<ActionLine("Error in action", item.action)>>
    ELSE <<>>

RECURSIVE printed(_)
printed(log) ==
    IF log = <<>> THEN <<>> ELSE router_lines(Head(log)) \o printed(Tail(log))

\* Everything the broker printed during the handle call recorded as h.
stdout(h) == <<EventLine(h.device_name, h.message)>> \o printed(h.log)

(***************************************************************************)
(* Spec: the broker of create_broker handling the events of the listening  *)
(* devices one after another (devices.py:78-80 calls the callback once per *)
(* message).  An exception that leaves handle leaves blocking_read and is  *)
(* reported by read_messages_async as a disconnect: that device's listener *)
(* has ended.                                                              *)
(***************************************************************************)
Init ==
    /\ cycle_manager = CycleManager
    /\ calls = <<>>
    /\ dispatched = <<>>
    /\ listening = Devices
    /\ pc = <<>>
    /\ current = <<>>
    /\ cursor = <<>>
    /\ match_rule = <<>>
    /\ matched = <<>>
    /\ rule_signature = ""
    /\ ConfigIdle /\ ManagerIdle /\ RaceIdle
    /\ DiscoveryIdle /\ LegacyIdle /\ WizardIdle

Handled(device_name, message, r) ==
    [device_name |-> device_name, message |-> message, log |-> r.log,
     escaped |-> r.escaped]

Deliver(device_name, message) ==
    /\ device_name \in listening
    /\ Len(dispatched) < MaxEvents
    /\ LET r == handle(cycle_manager, device_name, message)
       IN  /\ cycle_manager' = r.cm
           /\ dispatched' = Append(dispatched, Handled(device_name, message, r))
           /\ listening' = IF r.escaped THEN listening \ {device_name} ELSE listening
    /\ UNCHANGED <<calls, pc, current, cursor>>
    /\ UNCHANGED <<match_rule, matched, rule_signature>>
    /\ UNCHANGED <<config_vars, manager_vars, race_vars>>
    /\ UNCHANGED <<discovery_vars, legacy_vars, wizard_vars>>

Next == \E device_name \in Devices, message \in Messages : Deliver(device_name, message)

Spec == Init /\ [][Next]_vars

(***************************************************************************)
(* SpecThreads: DeviceManager.run creates one task per device, and         *)
(* read_messages_async runs blocking_read on a thread of its own           *)
(* (asyncio.to_thread).  blocking_read calls callback(device.name, msg),   *)
(* that is broker.handle, on that thread: nothing in devices.py or         *)
(* broker.py takes a lock or queues the calls.  A thread's handle goes     *)
(* through its list one mapping at a time.                                 *)
(***************************************************************************)
\* The devices find_matching_ports found a port for.
Connected == {"deviceA", "deviceB"}

InitThreads ==
    /\ cycle_manager = CycleManager
    /\ calls = <<>>
    /\ dispatched = <<>>
    /\ listening = Connected
    /\ pc = [d \in Connected |-> "reading"]
    /\ current = [d \in Connected |-> UnknownMessage("none")]
    /\ cursor = [d \in Connected |-> 0]
    /\ match_rule = <<>>
    /\ matched = <<>>
    /\ rule_signature = ""
    /\ ConfigIdle /\ ManagerIdle /\ RaceIdle
    /\ DiscoveryIdle /\ LegacyIdle /\ WizardIdle

\* for raw_msg in port: msg = parse_midi_message(raw_msg); callback(...)
Receive(d, message) ==
    /\ pc[d] = "reading"
    /\ pc' = [pc EXCEPT ![d] = "handle"]
    /\ current' = [current EXCEPT ![d] = message]
    /\ cursor' = [cursor EXCEPT ![d] = 1]
    /\ UNCHANGED <<cycle_manager, calls, dispatched, listening>>
    /\ UNCHANGED <<match_rule, matched, rule_signature>>
    /\ UNCHANGED <<config_vars, manager_vars, race_vars>>
    /\ UNCHANGED <<discovery_vars, legacy_vars, wizard_vars>>

\* One iteration of the loop of handle on thread d.
Step(d) ==
    /\ pc[d] = "handle"
    /\ cursor[d] <= Len(applicable(d))
    /\ LET mapping == Entry(applicable(d)[cursor[d]])
           r == _invoke_action(cycle_manager, d, current[d], mapping)
       IN  IF ~matches_message(mapping.match, current[d])
           THEN /\ cursor' = [cursor EXCEPT ![d] = @ + 1]
                /\ UNCHANGED <<cycle_manager, pc, listening>>
           ELSE IF r.outcome = "IndexError"
           THEN /\ cycle_manager' = r.cm
                /\ pc' = [pc EXCEPT ![d] = "disconnected"]
                /\ listening' = listening \ {d}
                /\ UNCHANGED cursor
           ELSE /\ cycle_manager' = r.cm
                /\ cursor' = [cursor EXCEPT ![d] = @ + 1]
                /\ UNCHANGED <<pc, listening>>
    /\ UNCHANGED <<calls, dispatched, current>>
    /\ UNCHANGED <<match_rule, matched, rule_signature>>
    /\ UNCHANGED <<config_vars, manager_vars, race_vars>>
    /\ UNCHANGED <<discovery_vars, legacy_vars, wizard_vars>>

\* handle returns; the thread goes back to reading its port.
Return(d) ==
    /\ pc[d] = "handle"
    /\ cursor[d] > Len(applicable(d))
    /\ pc' = [pc EXCEPT ![d] = "reading"]
    /\ UNCHANGED <<cycle_manager, calls, dispatched, listening, current, cursor>>
    /\ UNCHANGED <<match_rule, matched, rule_signature>>
    /\ UNCHANGED <<config_vars, manager_vars, race_vars>>
    /\ UNCHANGED <<discovery_vars, legacy_vars, wizard_vars>>

NextThreads ==
    \/ \E d \in Connected, message \in Messages : Receive(d, message)
    \/ \E d \in Connected : Step(d)
    \/ \E d \in Connected : Return(d)

SpecThreads == InitThreads /\ [][NextThreads]_vars

(***************************************************************************)
(* SpecManager: the DeviceManager with its listeners.  run creates one     *)
(* task per device and waits for all of them; each task awaits a thread    *)
(* that iterates over the device's port and calls the callback for every   *)
(* message.  stop cancels the tasks and waits for them.  A task that is    *)
(* cancelled stops waiting for its thread; the thread itself is not        *)
(* interrupted.  The effect of a handle call on the broker is taken at its *)
(* end; how the steps of two calls interleave is the subject of            *)
(* SpecThreads and SpecRace.                                               *)
(***************************************************************************)
\* The messages the devices send while the manager is observed.
Sent == {ControlChange(0, 1, 127), ControlChange(0, 1, 0)}

\* An input port: whether the device is plugged in, and the messages that
\* arrived and have not been read.
Port(connected, pending) == [connected |-> connected, pending |-> pending]

DeviceManager(running, run, stop) == [_running |-> running, run |-> run, stop |-> stop]

\* One call of the callback by a listener thread: the number of the message
\* among those that arrived on its device.
Delivery(seq) == [seq |-> seq]

InitManager ==
    /\ cycle_manager = CycleManager
    /\ calls = <<>>
    /\ dispatched = <<>>
    /\ listening = Connected
    /\ pc = [d \in Connected |-> "reading"]
    /\ current = [d \in Connected |-> UnknownMessage("none")]
    /\ cursor = [d \in Connected |-> 0]
    /\ match_rule = <<>>
    /\ matched = <<>>
    /\ rule_signature = ""
    /\ ports = [d \in Connected |-> Port(TRUE, <<>>)]
    /\ arrived = [d \in Connected |-> 0]
    /\ tasks = [d \in Connected |-> "pending"]
    /\ manager = DeviceManager(TRUE, "gather", "idle")
    /\ delivered = [d \in Connected |-> <<>>]
    /\ ConfigIdle /\ RaceIdle
    /\ DiscoveryIdle /\ LegacyIdle /\ WizardIdle

\* The device sends a message; it waits in the port until it is read.
Arrive(d, message) ==
    /\ ports[d].connected
    /\ arrived["deviceA"] + arrived["deviceB"] < MaxArrivals
    /\ arrived' = [arrived EXCEPT ![d] = @ + 1]
    /\ ports' = [ports EXCEPT ![d].pending =
                    Append(@, [seq |-> arrived[d] + 1, message |-> message])]
    /\ UNCHANGED <<cycle_manager, calls, dispatched, listening, pc, current,
                   cursor, match_rule, matched, rule_signature>>
    /\ UNCHANGED <<tasks, manager, delivered, config_vars, race_vars>>
    /\ UNCHANGED <<discovery_vars, legacy_vars, wizard_vars>>

\* Plausible slip: the newest waiting message is taken first.
ReadNewest(d) ==
    /\ pc[d] = "reading"
    /\ ports[d].pending # <<>>
    /\ LET n == Len(ports[d].pending)
           item == ports[d].pending[n]
       IN  /\ ports' = [ports EXCEPT ![d].pending = SubSeq(@, 1, n - 1)]
           /\ current' = [current EXCEPT ![d] = item.message]
           /\ delivered' = [delivered EXCEPT ![d] = Append(@, Delivery(item.seq))]
    /\ pc' = [pc EXCEPT ![d] = "handle"]
    /\ UNCHANGED <<cycle_manager, calls, dispatched, listening, cursor,
                   match_rule, matched, rule_signature>>
    /\ UNCHANGED <<arrived, tasks, manager, config_vars, race_vars>>
    /\ UNCHANGED <<discovery_vars, legacy_vars, wizard_vars>>

\* Plausible slip: one loop polls the devices in turn, so a device is read
\* only while no listener before it is blocked on an empty port.
ReadInTurn(d) ==
    /\ pc[d] = "reading"
    /\ ports[d].pending # <<>>
    /\ \A e \in IF d = "deviceB" THEN {"deviceA"} ELSE {} :
            ~(pc[e] = "reading" /\ ports[e].pending = <<>>)
    /\ LET item == Head(ports[d].pending)
       IN  /\ ports' = [ports EXCEPT ![d].pending = Tail(@)]
           /\ current' = [current EXCEPT ![d] = item.message]
           /\ delivered' = [delivered EXCEPT ![d] = Append(@, Delivery(item.seq))]
    /\ pc' = [pc EXCEPT ![d] = "handle"]
    /\ UNCHANGED <<cycle_manager, calls, dispatched, listening, cursor,
                   match_rule, matched, rule_signature>>
    /\ UNCHANGED <<arrived, tasks, manager, config_vars, race_vars>>
    /\ UNCHANGED <<discovery_vars, legacy_vars, wizard_vars>>

\* for raw_msg in port: the thread of d takes the oldest waiting message,
\* parses it and calls callback(device.name, msg).
Read(d) ==
    /\ pc[d] = "reading"
    /\ ports[d].pending # <<>>
    /\ LET item == Head(ports[d].pending)
       IN  /\ ports' = [ports EXCEPT ![d].pending = Tail(@)]
           /\ current' = [current EXCEPT ![d] = item.message]
           /\ delivered' = [delivered EXCEPT ![d] = Append(@, Delivery(item.seq))]
    /\ pc' = [pc EXCEPT ![d] = "handle"]
    /\ UNCHANGED <<cycle_manager, calls, dispatched, listening, cursor,
                   match_rule, matched, rule_signature>>
    /\ UNCHANGED <<arrived, tasks, manager, config_vars, race_vars>>
    /\ UNCHANGED <<discovery_vars, legacy_vars, wizard_vars>>

\* The callback, broker.handle, runs to its end on the thread of d.  When
\* an exception escapes it, it ends blocking_read and the thread.
Callback(d) ==
    /\ pc[d] = "handle"
    /\ \E r \in {handle(cycle_manager, d, current[d])} :
           /\ cycle_manager' = r.cm
           /\ pc' = [pc EXCEPT ![d] = IF r.escaped THEN "disconnected" ELSE "reading"]
           /\ listening' = IF r.escaped THEN listening \ {d} ELSE listening
    /\ UNCHANGED <<calls, dispatched, current, cursor, match_rule, matched,
                   rule_signature>>
    /\ UNCHANGED <<manager_vars, config_vars, race_vars>>
    /\ UNCHANGED <<discovery_vars, legacy_vars, wizard_vars>>

\* Plausible slip: an error of one port ends every listener.
DisconnectAll(d) ==
    /\ pc[d] = "reading"
    /\ ports[d].connected
    /\ ports' = [ports EXCEPT ![d].connected = FALSE]
    /\ pc' = [e \in Connected |-> "disconnected"]
    /\ listening' = {}
    /\ UNCHANGED <<cycle_manager, calls, dispatched, current, cursor,
                   match_rule, matched, rule_signature>>
    /\ UNCHANGED <<arrived, tasks, manager, delivered, config_vars, race_vars>>
    /\ UNCHANGED <<discovery_vars, legacy_vars, wizard_vars>>

\* The device is unplugged: the iteration over its port raises, which ends
\* blocking_read and the thread of d.
Disconnect(d) ==
    /\ pc[d] = "reading"
    /\ ports[d].connected
    /\ ports' = [ports EXCEPT ![d].connected = FALSE]
    /\ pc' = [pc EXCEPT ![d] = "disconnected"]
    /\ listening' = listening \ {d}
    /\ UNCHANGED <<cycle_manager, calls, dispatched, current, cursor,
                   match_rule, matched, rule_signature>>
    /\ UNCHANGED <<arrived, tasks, manager, delivered, config_vars, race_vars>>
    /\ UNCHANGED <<discovery_vars, legacy_vars, wizard_vars>>

\* await asyncio.to_thread(blocking_read) raises what ended the thread;
\* read_messages_async reports the device as disconnected and returns.
TaskEnds(d) ==
    /\ pc[d] = "disconnected"
    /\ tasks[d] = "pending"
    /\ tasks' = [tasks EXCEPT ![d] = "done"]
    /\ UNCHANGED <<cycle_manager, calls, dispatched, listening, pc, current,
                   cursor, match_rule, matched, rule_signature>>
    /\ UNCHANGED <<ports, arrived, manager, delivered, config_vars, race_vars>>
    /\ UNCHANGED <<discovery_vars, legacy_vars, wizard_vars>>

\* stop: _running = False and task.cancel() for every task.  A task that
\* has not ended is cancelled at its await; its thread is left as it is.
Stop ==
    /\ manager.stop = "idle"
    /\ manager' = [manager EXCEPT !._running = FALSE, !.stop = "gather"]
    /\ tasks' = [d \in Connected |->
                    IF tasks[d] = "pending" THEN "cancelled" ELSE tasks[d]]
    /\ UNCHANGED <<cycle_manager, calls, dispatched, listening, pc, current,
                   cursor, match_rule, matched, rule_signature>>
    /\ UNCHANGED <<ports, arrived, delivered, config_vars, race_vars>>
    /\ UNCHANGED <<discovery_vars, legacy_vars, wizard_vars>>

\* stop: the gather over the cancelled tasks returns, the list is cleared.
StopCompletes ==
    /\ manager.stop = "gather"
    /\ \A d \in Connected : tasks[d] # "pending"
    /\ manager' = [manager EXCEPT !.stop = "completed"]
    /\ UNCHANGED <<cycle_manager, calls, dispatched, listening, pc, current,
                   cursor, match_rule, matched, rule_signature>>
    /\ UNCHANGED <<ports, arrived, tasks, delivered, config_vars, race_vars>>
    /\ UNCHANGED <<discovery_vars, legacy_vars, wizard_vars>>

\* run: the gather over the tasks returns once every task has ended.
RunReturns ==
    /\ manager.run = "gather"
    /\ \A d \in Connected : tasks[d] # "pending"
    /\ manager' = [manager EXCEPT !._running = FALSE, !.run = "returned"]
    /\ UNCHANGED <<cycle_manager, calls, dispatched, listening, pc, current,
                   cursor, match_rule, matched, rule_signature>>
    /\ UNCHANGED <<ports, arrived, tasks, delivered, config_vars, race_vars>>
    /\ UNCHANGED <<discovery_vars, legacy_vars, wizard_vars>>

NextManager ==
    \/ \E d \in Connected, message \in Sent : Arrive(d, message)
    \/ \E d \in Connected : Read(d)
    \/ \E d \in Connected : Callback(d)
    \/ \E d \in Connected : Disconnect(d)
    \/ \E d \in Connected : TaskEnds(d)
    \/ Stop
    \/ StopCompletes
    \/ RunReturns

SpecManager == InitManager /\ [][NextManager]_vars

(***************************************************************************)
(* SpecListeners: the listener threads by themselves.  Stop, StopCompletes, *)
(* RunReturns and TaskEnds change the tasks and the manager only and no    *)
(* thread reads either, so the threads behave in SpecManager as they do    *)
(* here.  Every listener is an operating system thread of its own          *)
(* (asyncio.to_thread, at most as many devices as the executor has         *)
(* workers): a thread that can take a step is scheduled sooner or later.   *)
(* Nothing is assumed of the devices: a device may stay silent for ever.   *)
(***************************************************************************)
NextListeners ==
    \/ \E d \in Connected, message \in Sent : Arrive(d, message)
    \/ \E d \in Connected : Read(d)
    \/ \E d \in Connected : Callback(d)
    \/ \E d \in Connected : Disconnect(d)

SpecListeners == InitManager /\ [][NextListeners]_vars

SpecListenersFair ==
    /\ SpecListeners
    /\ \A d \in Connected : WF_vars(Read(d)) /\ WF_vars(Callback(d))

(***************************************************************************)
(* SpecCycle: a client of the CycleManager API.                            *)
(***************************************************************************)
TrackerKeys ==
    { CycleKey("deviceA", "control_change_cc1"),
      CycleKey("deviceB", "control_change_cc1") }

PresetCounts == {0, 2, 3}

Call(op, key, preset_count, ret) ==
    [op |-> op, key |-> key, preset_count |-> preset_count, ret |-> ret]

InitCycle ==
    /\ cycle_manager = CycleManager
    /\ calls = <<>>
    /\ dispatched = <<>>
    /\ listening = {}
    /\ pc = <<>>
    /\ current = <<>>
    /\ cursor = <<>>
    /\ match_rule = <<>>
    /\ matched = <<>>
    /\ rule_signature = ""
    /\ ConfigIdle /\ ManagerIdle /\ RaceIdle
    /\ DiscoveryIdle /\ LegacyIdle /\ WizardIdle

CallGetIndex(key, preset_count) ==
    /\ Len(calls) < MaxCalls
    /\ LET r == get_index(cycle_manager, key, preset_count)
       IN  /\ cycle_manager' = r.cm
           /\ calls' = Append(calls, Call("get_index", key, preset_count, r.ret))
    /\ UNCHANGED <<dispatched, listening, pc, current, cursor>>
    /\ UNCHANGED <<match_rule, matched, rule_signature>>
    /\ UNCHANGED <<config_vars, manager_vars, race_vars>>
    /\ UNCHANGED <<discovery_vars, legacy_vars, wizard_vars>>

CallReset(key) ==
    /\ Len(calls) < MaxCalls
    /\ cycle_manager' = reset(cycle_manager, key)
    /\ calls' = Append(calls, Call("reset", key, 0, None))
    /\ UNCHANGED <<dispatched, listening, pc, current, cursor>>
    /\ UNCHANGED <<match_rule, matched, rule_signature>>
    /\ UNCHANGED <<config_vars, manager_vars, race_vars>>
    /\ UNCHANGED <<discovery_vars, legacy_vars, wizard_vars>>

CallClear ==
    /\ Len(calls) < MaxCalls
    /\ cycle_manager' = clear(cycle_manager)
    /\ calls' = Append(calls, Call("clear", NoKey, 0, None))
    /\ UNCHANGED <<dispatched, listening, pc, current, cursor>>
    /\ UNCHANGED <<match_rule, matched, rule_signature>>
    /\ UNCHANGED <<config_vars, manager_vars, race_vars>>
    /\ UNCHANGED <<discovery_vars, legacy_vars, wizard_vars>>

NextCycle ==
    \/ \E key \in TrackerKeys, n \in PresetCounts : CallGetIndex(key, n)
    \/ \E key \in TrackerKeys : CallReset(key)
    \/ CallClear

SpecCycle == InitCycle /\ [][NextCycle]_vars

(***************************************************************************)
(* SpecRace: get_index called by two listener threads at once, one         *)
(* statement of cycle.py:42-50 at a time.  The broker of cmd_run is shared *)
(* by all listeners (cli.py:60-71) and nothing orders their calls.  The    *)
(* key of a call carries the device of the calling listener, so the two    *)
(* threads use different keys; last_key is common to them.                 *)
(***************************************************************************)
\* The key the listener of device d passes.
KeyOf(d) == CycleKey(d, "control_change_cc1")

\* The locals of a get_index call: its arguments, the value read in line
\* 47, and what it returns.
Frame(key, preset_count, index, ret) ==
    [key |-> key, preset_count |-> preset_count, index |-> index, ret |-> ret]

\* The states a tracker can be in when the calls start: fresh or cleared,
\* or some key pressed last, each key absent (never pressed, or reset) or
\* at a position.
StartStates ==
    {CycleManager} \cup
    {[indices |-> [k \in keys |-> at[k]], last_key |-> last] :
        keys \in SUBSET {KeyOf(d) : d \in Connected},
        at \in [{KeyOf(d) : d \in Connected} -> 0..1],
        last \in {KeyOf(d) : d \in Connected}}

InitRace ==
    /\ cycle_manager \in StartStates
    /\ start = cycle_manager
    /\ \E counts \in [Connected -> PresetCounts \ {0}] :
            frame = [d \in Connected |-> Frame(KeyOf(d), counts[d], None, None)]
    /\ pc = [d \in Connected |-> "line 42"]
    /\ calls = <<>>
    /\ dispatched = <<>>
    /\ listening = Connected
    /\ current = <<>>
    /\ cursor = <<>>
    /\ match_rule = <<>>
    /\ matched = <<>>
    /\ rule_signature = ""
    /\ ConfigIdle /\ ManagerIdle
    /\ DiscoveryIdle /\ LegacyIdle /\ WizardIdle

\* if key not in self.indices:
KeyNotInIndices(d) ==
    /\ pc[d] = "line 42"
    /\ pc' = [pc EXCEPT ![d] = IF KeyOf(d) \in DOMAIN cycle_manager.indices
                                THEN "line 46" ELSE "line 43"]
    /\ UNCHANGED <<cycle_manager, frame>>
    /\ UNCHANGED <<calls, dispatched, listening, current, cursor, match_rule,
                   matched, rule_signature, start>>
    /\ UNCHANGED <<config_vars, manager_vars>>
    /\ UNCHANGED <<discovery_vars, legacy_vars, wizard_vars>>

\* self.indices[key] = 0
InsertKey(d) ==
    /\ pc[d] = "line 43"
    /\ cycle_manager' = [cycle_manager EXCEPT
                            !.indices = (KeyOf(d) :> 0) @@ cycle_manager.indices]
    /\ pc' = [pc EXCEPT ![d] = "line 46"]
    /\ UNCHANGED frame
    /\ UNCHANGED <<calls, dispatched, listening, current, cursor, match_rule,
                   matched, rule_signature, start>>
    /\ UNCHANGED <<config_vars, manager_vars>>
    /\ UNCHANGED <<discovery_vars, legacy_vars, wizard_vars>>

\* if self.last_key == key:
CompareLastKey(d) ==
    /\ pc[d] = "line 46"
    /\ pc' = [pc EXCEPT ![d] = IF cycle_manager.last_key = KeyOf(d)
                                THEN "line 47 read" ELSE "line 49"]
    /\ UNCHANGED <<cycle_manager, frame>>
    /\ UNCHANGED <<calls, dispatched, listening, current, cursor, match_rule,
                   matched, rule_signature, start>>
    /\ UNCHANGED <<config_vars, manager_vars>>
    /\ UNCHANGED <<discovery_vars, legacy_vars, wizard_vars>>

\* self.indices[key] = (self.indices[key] + 1) % preset_count: the read
ReadIndex(d) ==
    /\ pc[d] = "line 47 read"
    /\ frame' = [frame EXCEPT ![d].index = cycle_manager.indices[KeyOf(d)]]
    /\ pc' = [pc EXCEPT ![d] = "line 47 write"]
    /\ UNCHANGED cycle_manager
    /\ UNCHANGED <<calls, dispatched, listening, current, cursor, match_rule,
                   matched, rule_signature, start>>
    /\ UNCHANGED <<config_vars, manager_vars>>
    /\ UNCHANGED <<discovery_vars, legacy_vars, wizard_vars>>

\* self.indices[key] = (self.indices[key] + 1) % preset_count: the write
WriteIndex(d) ==
    /\ pc[d] = "line 47 write"
    /\ cycle_manager' = [cycle_manager EXCEPT
                            !.indices[KeyOf(d)] =
                                (frame[d].index + 1) % frame[d].preset_count]
    /\ pc' = [pc EXCEPT ![d] = "line 49"]
    /\ UNCHANGED frame
    /\ UNCHANGED <<calls, dispatched, listening, current, cursor, match_rule,
                   matched, rule_signature, start>>
    /\ UNCHANGED <<config_vars, manager_vars>>
    /\ UNCHANGED <<discovery_vars, legacy_vars, wizard_vars>>

\* self.last_key = key
SetLastKey(d) ==
    /\ pc[d] = "line 49"
    /\ cycle_manager' = [cycle_manager EXCEPT !.last_key = KeyOf(d)]
    /\ pc' = [pc EXCEPT ![d] = "line 50"]
    /\ UNCHANGED frame
    /\ UNCHANGED <<calls, dispatched, listening, current, cursor, match_rule,
                   matched, rule_signature, start>>
    /\ UNCHANGED <<config_vars, manager_vars>>
    /\ UNCHANGED <<discovery_vars, legacy_vars, wizard_vars>>

\* return self.indices[key]
ReturnIndex(d) ==
    /\ pc[d] = "line 50"
    /\ frame' = [frame EXCEPT ![d].ret = cycle_manager.indices[KeyOf(d)]]
    /\ pc' = [pc EXCEPT ![d] = "returned"]
    /\ UNCHANGED cycle_manager
    /\ UNCHANGED <<calls, dispatched, listening, current, cursor, match_rule,
                   matched, rule_signature, start>>
    /\ UNCHANGED <<config_vars, manager_vars>>
    /\ UNCHANGED <<discovery_vars, legacy_vars, wizard_vars>>

NextRace ==
    \/ \E d \in Connected : KeyNotInIndices(d)
    \/ \E d \in Connected : InsertKey(d)
    \/ \E d \in Connected : CompareLastKey(d)
    \/ \E d \in Connected : ReadIndex(d)
    \/ \E d \in Connected : WriteIndex(d)
    \/ \E d \in Connected : SetLastKey(d)
    \/ \E d \in Connected : ReturnIndex(d)

SpecRace == InitRace /\ [][NextRace]_vars

(***************************************************************************)
(* SpecMatch: the match rule evaluator applied to rules as parse_match_rule *)
(* builds them (config.py:98-127: any type string, each optional field an   *)
(* integer or None) and to the messages parse_midi_message produces.        *)
(***************************************************************************)
\* The five types of type_map and one type string it does not know.
RuleTypes == DOMAIN type_map \cup {"aftertouch"}

OptionalFields ==
    {"channel", "control", "note", "program",
     "value_min", "value_max", "velocity_min", "velocity_max"}

\* The optional fields of rule r that are set.
FieldsSet(r) == {f \in OptionalFields : r[f] # None}

Optional(S) == {None} \cup S

\* Every rule over the bounded field values.
BoundedRules ==
    [type : RuleTypes,
     channel : Optional(0..MaxChannel),
     control : Optional(0..MaxNumber),
     note : Optional(0..MaxNumber),
     program : Optional(0..MaxNumber),
     value_min : Optional(0..MaxLevel),
     value_max : Optional(0..MaxLevel),
     velocity_min : Optional(0..MaxLevel),
     velocity_max : Optional(0..MaxLevel)]

\* The rules with at most MaxFields optional fields set.
Rules == {r : r \in {q \in BoundedRules : Cardinality(FieldsSet(q)) <= MaxFields}}

\* The messages parse_midi_message returns.
Events ==
    {ControlChange(ch, n, v) : ch \in 0..MaxChannel, n \in 0..MaxNumber, v \in 0..MaxLevel}
    \cup {NoteOn(ch, n, v) : ch \in 0..MaxChannel, n \in 0..MaxNumber, v \in 0..MaxLevel}
    \cup {NoteOff(ch, n, v) : ch \in 0..MaxChannel, n \in 0..MaxNumber, v \in 0..MaxLevel}
    \cup {ProgramChange(ch, n) : ch \in 0..MaxChannel, n \in 0..MaxNumber}
    \cup {PitchWheel(ch, pitch) : ch \in 0..MaxChannel, pitch \in (0 - MaxNumber)..MaxNumber}
    \cup {UnknownMessage("sysex")}

InitMatch ==
    /\ cycle_manager = CycleManager
    /\ calls = <<>>
    /\ dispatched = <<>>
    /\ listening = {}
    /\ pc = <<>>
    /\ current = <<>>
    /\ cursor = <<>>
    /\ match_rule \in Rules
    /\ matched = <<>>
    /\ rule_signature = ""
    /\ ConfigIdle /\ ManagerIdle /\ RaceIdle
    /\ DiscoveryIdle /\ LegacyIdle /\ WizardIdle

\* matches_message(rule, e) for every message e, and match_rule_signature(rule).
Evaluate ==
    /\ matched = <<>>
    /\ matched' = [e \in Events |-> matches_message(match_rule, e)]
    /\ rule_signature' = match_rule_signature(match_rule)
    /\ UNCHANGED <<cycle_manager, calls, dispatched, listening, pc, current,
                   cursor, match_rule>>
    /\ UNCHANGED <<config_vars, manager_vars, race_vars>>
    /\ UNCHANGED <<discovery_vars, legacy_vars, wizard_vars>>

NextMatch == Evaluate

SpecMatch == InitMatch /\ [][NextMatch]_vars

(***************************************************************************)
(* SpecConfig: config.py turning the YAML data of a mapping entry into a   *)
(* MappingEntry.  A YAML value is a record with its shape; a string is the *)
(* sequence of its characters, so that a leading "$" can be looked at.     *)
(***************************************************************************)
YamlAbsent == [shape |-> "absent"]

YamlInt(i) == [shape |-> "int", int |-> i]

\* A mapping with the keys min and max; None stands for a key that is missing.
YamlRange(min, max) == [shape |-> "dict", min |-> min, max |-> max]

YamlStr(chars) == [shape |-> "str", chars |-> chars]

YamlList(items) == [shape |-> "list", items |-> items]

\* data.get(key) of an integer field.
yaml_get(value) == IF value.shape = "int" THEN value.int ELSE None

\* The result of a call that either returns a value or raises.
Returned(value) == [raises |-> NoValue, value |-> value]

Raised(exception) == [raises |-> exception, value |-> NoValue]

resolve_preset_reference(value, presets) ==
    IF value.shape = "str" /\ value.chars # <<>> /\ Head(value.chars) = "$"
    THEN IF Tail(value.chars) \in DOMAIN presets
         THEN Returned(YamlList(presets[Tail(value.chars)]))
         ELSE Raised("ValueError")
    ELSE Returned(value)

\* velocity and value are a range object or a single value; the type and
\* the other fields are taken as they are.
parse_match_rule(data) ==
    LET range_min(v) == IF v.shape = "dict" THEN v.min ELSE yaml_get(v)
        range_max(v) == IF v.shape = "dict" THEN v.max ELSE yaml_get(v)
    IN  [type |-> data.type,
         channel |-> yaml_get(data.channel),
         control |-> yaml_get(data.control),
         note |-> yaml_get(data.note),
         program |-> yaml_get(data.program),
         value_min |-> range_min(data.value),
         value_max |-> range_max(data.value),
         velocity_min |-> range_min(data.velocity),
         velocity_max |-> range_max(data.velocity)]

parse_mapping_entry(data, presets) ==
    LET resolved == [k \in DOMAIN data.params |->
                        resolve_preset_reference(data.params[k], presets)]
    IN  IF \E k \in DOMAIN resolved : resolved[k].raises # NoValue
        THEN Raised("ValueError")
        ELSE Returned(MappingEntry(parse_match_rule(data.match), data.action,
                                   [k \in DOMAIN resolved |-> resolved[k].value],
                                   data.cycle))

\* load_config for a file with one mapping entry.
load_config(yaml) == parse_mapping_entry(yaml.entry, yaml.presets)

\* The presets section: one named list.
PresetsSection == (<<"w", "a", "r", "m">> :> <<"a", "b">>)

YamlValues ==
    {YamlAbsent}
    \cup {YamlInt(i) : i \in 0..MaxLevel}
    \cup {YamlRange(lo, hi) : lo \in Optional(0..MaxLevel), hi \in Optional(0..MaxLevel)}

YamlMatches ==
    [type : RuleTypes, channel : {YamlAbsent}, control : {YamlAbsent, YamlInt(1)},
     note : {YamlAbsent}, program : {YamlAbsent},
     value : YamlValues, velocity : YamlValues]

YamlParams ==
    { <<>>,
      [presets |-> YamlStr(<<"$", "w", "a", "r", "m">>)],
      [presets |-> YamlStr(<<"$", "c", "o", "l", "d">>)],
      [presets |-> YamlList(<<"x", "y">>)] }

YamlFiles ==
    [entry : [match : YamlMatches, action : {"print_message"},
              params : YamlParams, cycle : {TRUE}],
     presets : {PresetsSection}]

InitConfig ==
    /\ cycle_manager = CycleManager
    /\ calls = <<>>
    /\ dispatched = <<>>
    /\ listening = {}
    /\ pc = <<>>
    /\ current = <<>>
    /\ cursor = <<>>
    /\ match_rule = <<>>
    /\ matched = <<>>
    /\ rule_signature = ""
    /\ raw_config \in YamlFiles
    /\ loaded = <<>>
    /\ ManagerIdle /\ RaceIdle
    /\ DiscoveryIdle /\ LegacyIdle /\ WizardIdle

LoadConfig ==
    /\ loaded = <<>>
    /\ loaded' = load_config(raw_config)
    /\ UNCHANGED <<cycle_manager, calls, dispatched, listening, pc, current,
                   cursor, match_rule, matched, rule_signature, raw_config>>
    /\ UNCHANGED <<manager_vars, race_vars>>
    /\ UNCHANGED <<discovery_vars, legacy_vars, wizard_vars>>

NextConfig == LoadConfig

SpecConfig == InitConfig /\ [][NextConfig]_vars

(***************************************************************************)
(* SpecStartup: cmd_run loading the actions (cli.py:30-35) and handing     *)
(* them to the broker (cli.py:62).  The registry of actions/base.py is a   *)
(* module global, empty when the process starts; an @action decorator      *)
(* stores the function under its name (base.py:42-45).  The actions        *)
(* directory is Path.cwd() / "actions".                                    *)
(***************************************************************************)
\* A .py file of the actions directory: its name (first character, rest),
\* the action names its @action decorators register, in order, and whether
\* executing the module raises after them.
PluginFile(name, registers, raises) ==
    [name |-> name, registers |-> registers, raises |-> raises]

\* sorted(actions_dir.glob("*.py")) of a directory holding all of them.
PluginFiles ==
    << PluginFile(<<"_", "private.py">>, <<"hidden">>, FALSE),
       PluginFile(<<"b", "roken.py">>, <<"half">>, TRUE),
       PluginFile(<<"e", "xample.py">>, <<"print_message", "notify">>, FALSE),
       PluginFile(<<"s", "hadow.py">>, <<"shell">>, FALSE) >>

\* The files of PluginFiles chosen by the positions in S, in sorted order.
RECURSIVE Chosen(_, _)
Chosen(i, S) ==
    IF i > Len(PluginFiles) THEN <<>>
    ELSE (IF i \in S THEN <<PluginFiles[i]>> ELSE <<>>) \o Chosen(i + 1, S)

ActionsDir(exists, files) == [exists |-> exists, files |-> files]

\* _action_registry[action_name] = func: the module is kept for the function.
RECURSIVE register(_, _, _)
register(registry, names, module) ==
    IF names = <<>> THEN registry
    ELSE register((Head(names) :> module) @@ [n \in (DOMAIN registry) \ {Head(names)} |-> registry[n]],
                  Tail(names), module)

\* where cmd_run is: the line of cli.py or discovery.py it is about to run,
\* the position of the loop of discover_actions, and the dict it got back.
Startup(at, py_file, got) == [at |-> at, py_file |-> py_file, actions |-> got]

InitStartup ==
    /\ \/ actions_dir = ActionsDir(FALSE, <<>>)
       \/ \E S \in SUBSET (1..Len(PluginFiles)) :
            actions_dir = ActionsDir(TRUE, Chosen(1, S))
    /\ _action_registry = <<>>
    /\ startup = Startup("cli.py:31", 0, NoValue)
    /\ cycle_manager = CycleManager
    /\ calls = <<>>
    /\ dispatched = <<>>
    /\ listening = {}
    /\ pc = <<>>
    /\ current = <<>>
    /\ cursor = <<>>
    /\ match_rule = <<>>
    /\ matched = <<>>
    /\ rule_signature = ""
    /\ ConfigIdle /\ ManagerIdle /\ RaceIdle
    /\ LegacyIdle /\ WizardIdle

\* what a step of the startup leaves alone
StartupFrame ==
    /\ UNCHANGED <<cycle_manager, calls, dispatched, listening, pc, current,
                   cursor, match_rule, matched, rule_signature>>
    /\ UNCHANGED <<config_vars, manager_vars, race_vars, legacy_vars, wizard_vars>>

\* load_builtin_actions(): importing the two modules runs their decorators.
load_builtin_actions ==
    /\ startup.at = "cli.py:31"
    /\ _action_registry' =
            register(register(_action_registry,
                              <<"ha_toggle", "ha_brightness", "ha_color", "ha_color_temp">>,
                              "actions.homeassistant"),
                     <<"shell">>, "actions.shell")
    /\ startup' = [startup EXCEPT !.at = "cli.py:33"]
    /\ UNCHANGED actions_dir
    /\ StartupFrame

\* discover_actions(actions_dir) up to its loop: a directory that does not
\* exist returns the empty dict.
discover_actions ==
    /\ startup.at = "cli.py:33"
    /\ startup' = IF ~actions_dir.exists
                  THEN Startup("cli.py:62", 0, <<>>)
                  ELSE Startup("discovery.py:31", 1, NoValue)
    /\ UNCHANGED <<actions_dir, _action_registry>>
    /\ StartupFrame

\* One round of the loop for a private file: skipped.
SkipPrivate ==
    /\ startup.at = "discovery.py:31"
    /\ startup.py_file <= Len(actions_dir.files)
    /\ Head(actions_dir.files[startup.py_file].name) = "_"
    /\ startup' = [startup EXCEPT !.py_file = @ + 1]
    /\ UNCHANGED <<actions_dir, _action_registry>>
    /\ StartupFrame

\* One round of the loop: load_module_from_file executes the module; what
\* it registered before raising stays registered, the exception is printed.
load_module_from_file ==
    /\ startup.at = "discovery.py:31"
    /\ startup.py_file <= Len(actions_dir.files)
    /\ Head(actions_dir.files[startup.py_file].name) # "_"
    /\ _action_registry' = register(_action_registry,
                                    actions_dir.files[startup.py_file].registers,
                                    actions_dir.files[startup.py_file].name)
    /\ startup' = [startup EXCEPT !.py_file = @ + 1]
    /\ UNCHANGED actions_dir
    /\ StartupFrame

\* return get_registered_actions(): a copy of the registry.
get_registered_actions ==
    /\ startup.at = "discovery.py:31"
    /\ startup.py_file > Len(actions_dir.files)
    /\ startup' = Startup("cli.py:62", 0, _action_registry)
    /\ UNCHANGED <<actions_dir, _action_registry>>
    /\ StartupFrame

\* create_broker(actions, config.mappings, ha_client)
create_broker ==
    /\ startup.at = "cli.py:62"
    /\ startup' = [startup EXCEPT !.at = "broker"]
    /\ UNCHANGED <<actions_dir, _action_registry>>
    /\ StartupFrame

NextStartup ==
    \/ load_builtin_actions
    \/ discover_actions
    \/ SkipPrivate
    \/ load_module_from_file
    \/ get_registered_actions
    \/ create_broker

SpecStartup == InitStartup /\ [][NextStartup]_vars

(***************************************************************************)
(* SpecLegacy: the cycle state of the legacy single-device listener        *)
(* (src/midi_listener.py), keyed by control number, driven side by side    *)
(* with the CycleManager by the same presses.                              *)
(***************************************************************************)
CycleState == [indices |-> <<>>, last_control |-> None]

\* Plausible slip: the first press of a control already advances.
advance_eager(state, control, preset_count) ==
    LET seen == IF control \in DOMAIN state.indices
                THEN state.indices
                ELSE (control :> 0) @@ state.indices
        adv  == [seen EXCEPT ![control] = (seen[control] + 1) % preset_count]
    IN  [state |-> [indices |-> adv, last_control |-> control], ret |-> adv[control]]

\* CycleState.advance: the state after the call and the value returned.
advance(state, control, preset_count) ==
    LET seen == IF control \in DOMAIN state.indices
                THEN state.indices
                ELSE (control :> 0) @@ state.indices
        adv  == IF state.last_control = control
                THEN [seen EXCEPT ![control] = (seen[control] + 1) % preset_count]
                ELSE seen
    IN  [state |-> [indices |-> adv, last_control |-> control], ret |-> adv[control]]

\* The controls pressed, and the preset counts of their CycleActions.
LegacyControls == {1, 2}

LegacyCounts == {1, 2, 3}

\* The CycleKey the broker builds for a control of the one device.
KeyOfControl(control) ==
    CycleKey("deviceA",
             match_rule_signature([MatchRule("control_change") EXCEPT !.control = control]))

Advanced(control, preset_count, legacy, tracker) ==
    [control |-> control, preset_count |-> preset_count,
     legacy |-> legacy, tracker |-> tracker]

InitLegacy ==
    /\ cycle_state = CycleState
    /\ cycle_manager = CycleManager
    /\ advanced = <<>>
    /\ calls = <<>>
    /\ dispatched = <<>>
    /\ listening = {}
    /\ pc = <<>>
    /\ current = <<>>
    /\ cursor = <<>>
    /\ match_rule = <<>>
    /\ matched = <<>>
    /\ rule_signature = ""
    /\ ConfigIdle /\ ManagerIdle /\ RaceIdle
    /\ DiscoveryIdle /\ WizardIdle

\* One press: idx = state.advance(cc, len(self.presets)) in the legacy
\* listener, get_index(key, len(presets)) in the broker.
Press(control, preset_count) ==
    /\ Len(advanced) < MaxCalls
    /\ \E old \in {advance(cycle_state, control, preset_count)} :
       \E new \in {get_index(cycle_manager, KeyOfControl(control), preset_count)} :
            /\ cycle_state' = old.state
            /\ cycle_manager' = new.cm
            /\ advanced' = Append(advanced,
                                  Advanced(control, preset_count, old.ret, new.ret))
    /\ UNCHANGED <<calls, dispatched, listening, pc, current, cursor,
                   match_rule, matched, rule_signature>>
    /\ UNCHANGED <<config_vars, manager_vars, race_vars, discovery_vars, wizard_vars>>

NextLegacy == \E control \in LegacyControls, preset_count \in LegacyCounts :
                    Press(control, preset_count)

SpecLegacy == InitLegacy /\ [][NextLegacy]_vars

(***************************************************************************)
(* SpecWizard: the setup wizard (setup_wizard.py) capturing the controls   *)
(* of a device and writing their mappings; the configuration it writes is  *)
(* what load_config reads back.  controls is the dict of capture_events in *)
(* insertion order.                                                        *)
(***************************************************************************)
MaxCaptured == 3

CapturedControl(msg_type, channel, identifier, count, min_value, max_value) ==
    [msg_type |-> msg_type, channel |-> channel, identifier |-> identifier,
     count |-> count, min_value |-> min_value, max_value |-> max_value]

\* CapturedControl.key
control_key(control) == <<control.msg_type, control.channel, control.identifier>>

\* CapturedControl.update
update(control, value) ==
    [control EXCEPT !.count = @ + 1,
                    !.min_value = IF value < @ THEN value ELSE @,
                    !.max_value = IF value > @ THEN value ELSE @]

\* The key and the value _process_message reads from a message; no key for
\* a message it ignores.
Ignored == [key |-> <<>>, value |-> None]

captured_as(msg) ==
    IF msg.kind = "ControlChange"
    THEN [key |-> <<"control_change", msg.channel, msg.control>>, value |-> msg.value]
    ELSE IF msg.kind = "NoteOn"
    THEN IF msg.velocity = 0
         THEN Ignored
         ELSE [key |-> <<"note_on", msg.channel, msg.note>>, value |-> msg.velocity]
    ELSE IF msg.kind = "NoteOff"
    THEN Ignored
    ELSE IF msg.kind = "ProgramChange"
    THEN [key |-> <<"program_change", msg.channel, msg.program>>, value |-> msg.program]
    ELSE IF msg.kind = "PitchWheel"
    THEN [key |-> <<"pitchwheel", msg.channel, 0>>, value |-> msg.pitch]
    ELSE Ignored

\* _process_message: the controls dict after the call.
_process_message(msg, captured) ==
    IF captured_as(msg) = Ignored
    THEN captured
    ELSE LET k == captured_as(msg).key
             v == captured_as(msg).value
         IN  IF \E i \in 1..Len(captured) : control_key(captured[i]) = k
             THEN [i \in 1..Len(captured) |->
                      IF control_key(captured[i]) = k THEN update(captured[i], v)
                      ELSE captured[i]]
             ELSE Append(captured, CapturedControl(k[1], k[2], k[3], 1, v, v))

\* detect_control_type: the suggested action.
detect_control_type(control) ==
    IF control.msg_type = "control_change"
    THEN IF control.max_value - control.min_value > 50
         THEN "ha_brightness" ELSE "ha_toggle"
    ELSE IF control.msg_type = "note_on"
    THEN IF control.count > 2 THEN "ha_color_temp" ELSE "ha_toggle"
    ELSE IF control.msg_type = "program_change"
    THEN "shell"
    ELSE IF control.msg_type = "pitchwheel"
    THEN "ha_brightness"
    ELSE "print_message"

\* The match rule dict generate_config_block builds for a control: a key is
\* in it only when the code sets it.
match_rule_of(control) ==
    [type |-> control.msg_type]
        @@ (IF control.channel # 0 THEN [channel |-> control.channel] ELSE <<>>)
        @@ (IF control.msg_type = "control_change"
            THEN [control |-> control.identifier]
            ELSE IF control.msg_type \in {"note_on", "note_off"}
            THEN [note |-> control.identifier]
            ELSE IF control.msg_type = "program_change"
            THEN [program |-> control.identifier]
            ELSE <<>>)

\* generate_config_block: the mappings of the block, one per control with an
\* accepted suggestion (run_setup_wizard accepts every suggestion).
generate_config_block(captured) ==
    [i \in 1..Len(captured) |->
        [match |-> match_rule_of(captured[i]),
         action |-> detect_control_type(captured[i]),
         cycle |-> detect_control_type(captured[i])
                      \in {"ha_brightness", "ha_color", "ha_color_temp"}]]

\* yaml.dump of write_config and yaml.safe_load of load_config: the match
\* dict as parse_match_rule gets it.
safe_load(match) ==
    LET get(k) == IF k \in DOMAIN match THEN YamlInt(match[k]) ELSE YamlAbsent
    IN  [type |-> match["type"], channel |-> get("channel"),
         control |-> get("control"), note |-> get("note"),
         program |-> get("program"), value |-> YamlAbsent, velocity |-> YamlAbsent]

\* The block of the device: whether write_config has written it, and its
\* mappings.
ConfigBlock(written, block) == [written |-> written, mappings |-> block]

\* The messages the device sends while the wizard captures.
WizardMessages ==
    {ControlChange(c, 1, v) : c \in 0..MaxChannel, v \in {0, 127}}
        \cup {NoteOn(c, 60, v) : c \in 0..MaxChannel, v \in {0, 100}}
        \cup {NoteOff(c, 60, 0) : c \in 0..MaxChannel}
        \cup {ProgramChange(c, 1) : c \in 0..MaxChannel}
        \cup {PitchWheel(c, 0) : c \in 0..MaxChannel}
        \cup {UnknownMessage("sysex")}

InitWizard ==
    /\ controls = <<>>
    /\ config_block = ConfigBlock(FALSE, <<>>)
    /\ cycle_manager = CycleManager
    /\ calls = <<>>
    /\ dispatched = <<>>
    /\ listening = {}
    /\ pc = <<>>
    /\ current = <<>>
    /\ cursor = <<>>
    /\ match_rule = <<>>
    /\ matched = <<>>
    /\ rule_signature = ""
    /\ ConfigIdle /\ ManagerIdle /\ RaceIdle
    /\ DiscoveryIdle /\ LegacyIdle

WizardFrame ==
    /\ UNCHANGED <<cycle_manager, calls, dispatched, listening, pc, current,
                   cursor, match_rule, matched, rule_signature>>
    /\ UNCHANGED <<config_vars, manager_vars, race_vars, discovery_vars, legacy_vars>>

\* One round of the loop of capture_events.
capture_events(msg) ==
    /\ ~config_block.written
    /\ Len(controls) < MaxCaptured
    /\ \A i \in 1..Len(controls) : controls[i].count < MaxCaptured
    /\ controls' = _process_message(msg, controls)
    /\ UNCHANGED config_block
    /\ WizardFrame

\* write_config: the block generated from the controls captured.
write_config ==
    /\ ~config_block.written
    /\ config_block' = ConfigBlock(TRUE, generate_config_block(controls))
    /\ UNCHANGED controls
    /\ WizardFrame

NextWizard ==
    \/ \E msg \in WizardMessages : capture_events(msg)
    \/ write_config

SpecWizard == InitWizard /\ [][NextWizard]_vars

(***************************************************************************)
(* Reading the history of API calls.                                       *)
(***************************************************************************)
Max(S) == CHOOSE m \in S : \A x \in S : x <= m

IsPress(c) == c.op = "get_index" /\ c.preset_count > 0

\* Position of the most recent press before call i (0: there is none).
PrevPress(i) == Max({0} \cup {j \in 1..(i - 1) : IsPress(calls[j])})

\* Position of the most recent call before call i that wrote key's entry.
PrevWrite(i, key) ==
    Max({0} \cup {j \in 1..(i - 1) :
            \/ IsPress(calls[j]) /\ calls[j].key = key
            \/ calls[j].op = "reset" /\ calls[j].key = key
            \/ calls[j].op = "clear"})

\* The index stored for key when call i is made (0 when key is unseen).
StoredBefore(i, key) ==
    LET j == PrevWrite(i, key)
    IN  IF j # 0 /\ calls[j].op = "get_index" THEN calls[j].ret ELSE 0

OnlyPressesOf(key, n) ==
    \A i \in 1..Len(calls) :
        calls[i].op = "get_index" /\ calls[i].key = key /\ calls[i].preset_count = n

Pressed(keys, counts, rets) ==
    /\ Len(calls) = Len(keys)
    /\ \A i \in 1..Len(calls) :
        calls[i] = Call("get_index", keys[i], counts[i], rets[i])

KeyK == CycleKey("deviceA", "control_change_cc1")
KeyJ == CycleKey("deviceB", "control_change_cc1")

(***************************************************************************)
(* C1: from a fresh tracker, the i-th of consecutive get_index(K, n) calls *)
(* with the same key and the same n > 0 returns (i-1) mod n: the first     *)
(* press does not advance, each later one advances by one, and the index   *)
(* wraps to 0 after n-1.                                                   *)
(***************************************************************************)
C1_ConsecutivePressesCycle ==
    \A key \in TrackerKeys, n \in PresetCounts \ {0} :
        OnlyPressesOf(key, n)
            => \A i \in 1..Len(calls) : calls[i].ret = (i - 1) % n

C1_Witness ==
    Pressed(<<KeyK, KeyK, KeyK, KeyK>>, <<3, 3, 3, 3>>, <<0, 1, 2, 0>>)

Registered(ref) == Entry(ref).action \in DOMAIN actions

\* A cycling entry with presets and an action to call.
Cycles(ref) == Entry(ref).cycle /\ presets_of(Entry(ref)) # <<>> /\ Registered(ref)

MatchesRef(ref, message) == matches_message(Entry(ref).match, message)

\* The entries of the device's list, then of the global list, whose rule
\* matches the event of handle call h.
Matching(h) ==
    SelectSeq(applicable(h.device_name), LAMBDA ref : MatchesRef(ref, h.message))

\* The action was called (it returned or it raised).
Called(item) == item.outcome \in {"invoked", "error"}

\* handle call h went through all its matching entries and returned.
Completed(h) == ~h.escaped /\ Len(h.log) = Len(Matching(h))

EntryE1 == EntryRef("deviceA", 3)
EntryG == EntryRef("global", 1)

(***************************************************************************)
(* C3: fan-out.  For every event the entries of the device's list and then *)
(* of the global list whose rule matches have their action invoked, once   *)
(* each and in that order (an entry naming no registered action gets the   *)
(* unknown-action warning in its place); no entry is suppressed by an      *)
(* earlier match.                                                          *)
(***************************************************************************)
C3_FanOut ==
    \A k \in 1..Len(dispatched) :
        LET h == dispatched[k]
            M == Matching(h)
        IN  /\ Len(h.log) = Len(M)
            /\ \A i \in 1..Len(M) :
                /\ h.log[i].entry = M[i]
                /\ Registered(M[i]) => Called(h.log[i])

(***************************************************************************)
(* C4: when the action of a matching entry raises, handle catches it:      *)
(* every later matching entry of the same event is still invoked and       *)
(* handle returns normally.                                                *)
(***************************************************************************)
C4_ActionErrorIsolated ==
    \A k \in 1..Len(dispatched) :
        LET h == dispatched[k]
            M == Matching(h)
        IN  \A i \in 1..Len(h.log) :
                h.log[i].outcome = "error"
                    => /\ Completed(h)
                       /\ \A j \in (i + 1)..Len(M) :
                            Registered(M[j]) => Called(h.log[j])

(***************************************************************************)
(* C5: a matching entry whose action is not in the registry gets the       *)
(* unknown-action warning and no invocation; handle does not raise, goes   *)
(* on to the remaining matching entries of the event, and the device's     *)
(* next event is processed.                                                *)
(***************************************************************************)
C5_UnknownActionSkipped ==
    \A k \in 1..Len(dispatched) :
        LET h == dispatched[k]
            M == Matching(h)
        IN  \A i \in 1..Len(M) :
                ~Registered(M[i])
                    => /\ Completed(h)
                       /\ h.log[i].outcome = "unknown"
                       /\ \A j \in (i + 1)..Len(M) :
                            Registered(M[j]) => Called(h.log[j])
                       /\ k = Len(dispatched) => h.device_name \in listening

(***************************************************************************)
(* C6: nothing escapes handle.  Every handle call returns normally after   *)
(* going through all its matching entries, and no listener is ended by the *)
(* handling of an event.                                                   *)
(***************************************************************************)
C6_NothingEscapesHandle ==
    /\ \A k \in 1..Len(dispatched) : Completed(dispatched[k])
    /\ listening = Devices

(***************************************************************************)
(* C7: the handle calls of different device listeners are serialized: at   *)
(* no time are two of them in progress.                                    *)
(***************************************************************************)
C7_HandleCallsSerialized ==
    Cardinality({d \in DOMAIN pc : pc[d] = "handle"}) <= 1

(***************************************************************************)
(* Runs of consecutive events of one control.                              *)
(***************************************************************************)
\* Event k came from device_name and matches entry ref of that device's
\* own list or of the global list.
EventOf(k, device_name, ref) ==
    /\ dispatched[k].device_name = device_name
    /\ ref.list \in {device_name, "global"}
    /\ MatchesRef(ref, dispatched[k].message)

\* Events a..b are consecutive events of device_name that all match ref.
Run(a, b, device_name, ref) ==
    /\ 1 <= a /\ a <= b /\ b <= Len(dispatched)
    /\ \A k \in a..b : EventOf(k, device_name, ref)

\* ... and ref is the one cycling entry each of them matches, once.
SoleRun(a, b, device_name, ref) ==
    /\ Run(a, b, device_name, ref)
    /\ \A k \in a..b : SelectSeq(Matching(dispatched[k]), Cycles) = <<ref>>

\* The invocations of entry ref in handle call k.
ItemsOf(k, ref) ==
    SelectSeq(dispatched[k].log, LAMBDA item : item.entry = ref)

\* Handle call k invoked ref's action with preset number i (from 0).
Selected(k, ref, i) ==
    \E n \in 1..Len(ItemsOf(k, ref)) :
        /\ Called(ItemsOf(k, ref)[n])
        /\ ItemsOf(k, ref)[n].cycle_index = i
        /\ ItemsOf(k, ref)[n].preset_value = presets_of(Entry(ref))[i + 1]

CyclingRefs ==
    {ref \in {EntryRef(list, idx) : list \in DOMAIN mappings, idx \in 1..8} :
        ref.idx <= Len(mappings[ref.list]) /\ Cycles(ref)}

PressesOf(h) ==
    LET cyc == SelectSeq(h.log, LAMBDA item : item.cycle_index # None)
    IN  [i \in 1..Len(cyc) |->
            [device |-> h.device_name,
             signature |-> match_rule_signature(Entry(cyc[i].entry).match),
             index |-> cyc[i].cycle_index]]

RECURSIVE PressesUpTo(_)
PressesUpTo(k) == IF k = 0 THEN <<>> ELSE PressesUpTo(k - 1) \o PressesOf(dispatched[k])

Presses == PressesUpTo(Len(dispatched))

SameControl(p, q) == p.device = q.device /\ p.signature = q.signature

\* Presses a..b alternate between two distinct keys.
Alternation(P, a, b) ==
    /\ 1 <= a /\ a < b /\ b <= Len(P)
    /\ \A i \in (a + 1)..b : ~SameControl(P[i], P[i - 1])
    /\ \A i \in (a + 2)..b : SameControl(P[i], P[i - 2])

(***************************************************************************)
(* C9: one last-key is shared by all devices and rules and the device is   *)
(* part of the key: while the presses alternate between two distinct keys  *)
(* (two controls, or one rule signature on two devices), the index of      *)
(* neither key advances, however long the alternation lasts.               *)
(***************************************************************************)
C9_AlternationNeverAdvances ==
    LET P == Presses
    IN  \A a \in 1..Len(P), b \in 1..Len(P) :
            Alternation(P, a, b)
                => \A i \in a..b, j \in a..b :
                        SameControl(P[i], P[j]) => P[i].index = P[j].index

C9_Witness ==
    /\ Len(dispatched) = 4
    /\ [k \in 1..4 |-> dispatched[k].device_name]
            = <<"deviceA", "deviceB", "deviceA", "deviceB">>
    /\ \A k \in 1..4 : dispatched[k].message = NoteOn(0, 60, 100)
    /\ Alternation(Presses, 1, 4)
    /\ \A i \in 1..4 : Presses[i].signature = "note_on" /\ Presses[i].index = 0

(***************************************************************************)
(* C10: a press of another control between two presses of a cycling        *)
(* control K interrupts K: when handle processed an event of another       *)
(* control (any device) between two events matching K, the second of them  *)
(* does not advance K's index.                                             *)
(***************************************************************************)
\* Event k is a press of the control of ref on device_name: it matches an
\* entry of that device with the signature of ref.
PressOfControl(k, device_name, ref) ==
    /\ dispatched[k].device_name = device_name
    /\ \E i \in 1..Len(Matching(dispatched[k])) :
        match_rule_signature(Entry(Matching(dispatched[k])[i]).match)
            = match_rule_signature(Entry(ref).match)

\* Event k is a press of some other control: a typed message, of any device,
\* that is no press of the control of ref on device_name.
OtherControl(k, device_name, ref) ==
    /\ dispatched[k].message.kind # "UnknownMessage"
    /\ ~PressOfControl(k, device_name, ref)

C10_OtherControlInterrupts ==
    \A ref \in CyclingRefs, device_name \in Devices :
        \A a \in 1..Len(dispatched), b \in 1..Len(dispatched) :
            (/\ a + 1 < b
             /\ EventOf(a, device_name, ref)
             /\ EventOf(b, device_name, ref)
             /\ \A k \in (a + 1)..(b - 1) : OtherControl(k, device_name, ref))
                => \A i \in 1..Len(ItemsOf(a, ref)), j \in 1..Len(ItemsOf(b, ref)) :
                        ItemsOf(b, ref)[j].cycle_index = ItemsOf(a, ref)[i].cycle_index

(***************************************************************************)
(* C11: get_index(K, 0) returns 0 in every state and changes nothing: the  *)
(* stored indices (K's included, also its absence) and last_key are after  *)
(* the call what they were before it.                                      *)
(***************************************************************************)
C11_ZeroCountChangesNothing ==
    [][LET c == calls'[Len(calls')]
       IN  (/\ Len(calls') = Len(calls) + 1
            /\ c.op = "get_index"
            /\ c.preset_count = 0)
               => /\ c.ret = 0
                  /\ cycle_manager' = cycle_manager]_vars

\* A zero-count call for the unseen key J inside a chain of presses of K:
\* J stays unseen, and the chain of K goes on.
C11_Witness ==
    /\ Pressed(<<KeyK, KeyK, KeyJ, KeyK>>, <<3, 3, 0, 3>>, <<0, 1, 0, 2>>)
    /\ KeyJ \notin DOMAIN cycle_manager.indices
    /\ cycle_manager.last_key = KeyK

(***************************************************************************)
(* C12: handle changes the cycle state only through the tracker, for       *)
(* entries that match and have cycle = true and non-empty presets: an      *)
(* event that matches no entry, or only entries with cycle = false, leaves *)
(* the stored indices and last_key as they were, and an event that matches *)
(* nothing invokes no action.                                              *)
(***************************************************************************)
\* The entries matching h that ask the tracker for an index.
CyclingMatches(h) ==
    SelectSeq(Matching(h),
              LAMBDA ref : Entry(ref).cycle /\ presets_of(Entry(ref)) # <<>>)

C12_OnlyCyclingEntriesChangeCycleState ==
    [][LET h == dispatched'[Len(dispatched')]
       IN  Len(dispatched') = Len(dispatched) + 1
               => /\ CyclingMatches(h) = <<>> => cycle_manager' = cycle_manager
                  /\ Matching(h) = <<>> => h.log = <<>> /\ ~h.escaped]_vars

\* After two presses of the cycling control 1 of deviceA, an event that
\* matches only the entries of control 2, none of which cycles, and one that
\* matches nothing.
C12_Witness ==
    /\ Len(dispatched) = 4
    /\ Selected(1, EntryE1, 0) /\ Selected(2, EntryE1, 1)
    /\ dispatched[3].device_name = "deviceA"
    /\ Matching(dispatched[3]) = [i \in 1..4 |-> EntryRef("deviceA", i + 4)]
    /\ Len(dispatched[3].log) = 4
    /\ \A n \in 1..4 : Called(dispatched[3].log[n])
    /\ Matching(dispatched[4]) = <<>> /\ dispatched[4].log = <<>>
    /\ cycle_manager.last_key = KeyK
    /\ cycle_manager.indices[KeyK] = 1

(***************************************************************************)
(* C13: the action of a matching entry is invoked with exactly the entry's *)
(* params without the key "presets": every other key is forwarded with its *)
(* configured value and the presets list is never forwarded, for cycling   *)
(* and non-cycling entries alike.                                          *)
(***************************************************************************)
C13_ParamsForwardedWithoutPresets ==
    \A k \in 1..Len(dispatched) : \A n \in 1..Len(dispatched[k].log) :
        LET item == dispatched[k].log[n]
            configured == Entry(item.entry).params
        IN  Called(item)
                => /\ DOMAIN item.params = (DOMAIN configured) \ {"presets"}
                   /\ \A key \in DOMAIN item.params : item.params[key] = configured[key]

\* The cycling entry of deviceA (message and presets configured) and the
\* plain toggle (entity_id configured) have both been invoked.
C13_Witness ==
    \E k, j \in 1..Len(dispatched) :
        /\ \E n \in 1..Len(dispatched[k].log) :
                /\ dispatched[k].log[n].entry = EntryE1
                /\ Called(dispatched[k].log[n])
                /\ dispatched[k].log[n].params = [message |-> "colour"]
        /\ \E n \in 1..Len(dispatched[j].log) :
                /\ dispatched[j].log[n].entry = EntryRef("deviceA", 5)
                /\ Called(dispatched[j].log[n])
                /\ dispatched[j].log[n].params = [entity_id |-> "light.x"]

(***************************************************************************)
(* C14: a matching entry with cycle = true but no presets (the key absent  *)
(* or the list empty) and a registered action degrades: invoking it calls  *)
(* its action with no cycle index and no preset value in the context and   *)
(* leaves the stored indices and last_key as they are, and a handle call   *)
(* that goes through its list invokes it once for the match.               *)
(***************************************************************************)
\* The entries with cycle = true, no presets and a registered action.
PresetlessRefs ==
    {ref \in {EntryRef(list, idx) : list \in DOMAIN mappings, idx \in 1..8} :
        /\ ref.idx <= Len(mappings[ref.list])
        /\ Entry(ref).cycle /\ presets_of(Entry(ref)) = <<>> /\ Registered(ref)}

C14_CycleWithoutPresetsDegrades ==
    /\ \A ref \in PresetlessRefs, device_name \in Devices, message \in Messages :
        LET r == _invoke_action(cycle_manager, device_name, message, Entry(ref))
        IN  /\ r.outcome \in {"invoked", "error"}
            /\ r.cycle_index = None /\ r.preset_value = NoValue
            /\ r.cm = cycle_manager
    /\ \A k \in 1..Len(dispatched) : \A ref \in PresetlessRefs :
        LET h == dispatched[k]
            items == ItemsOf(k, ref)
        IN  /\ \A n \in 1..Len(items) :
                    /\ Called(items[n])
                    /\ items[n].cycle_index = None
                    /\ items[n].preset_value = NoValue
            /\ ~h.escaped
                    => Len(items) = Len(SelectSeq(Matching(h), LAMBDA m : m = ref))

\* Control 2 of deviceB pressed after the tracker has stored an index: both
\* preset-less entries were invoked, and the tracker still holds what the
\* presses of deviceA left.
C14_Witness ==
    /\ Len(dispatched) = 3
    /\ Selected(1, EntryE1, 0) /\ Selected(2, EntryE1, 1)
    /\ dispatched[3].device_name = "deviceB"
    /\ dispatched[3].message = ControlChange(0, 2, 127)
    /\ Len(dispatched[3].log) = 2
    /\ \A n \in 1..2 : /\ Called(dispatched[3].log[n])
                        /\ dispatched[3].log[n].cycle_index = None
                        /\ dispatched[3].log[n].preset_value = NoValue
    /\ cycle_manager.last_key = KeyK /\ cycle_manager.indices[KeyK] = 1

(***************************************************************************)
(* Reading the results of the evaluator.                                   *)
(***************************************************************************)
Evaluated == matched # <<>>

\* The message variant a rule type names.
VariantOf(type) ==
    CASE type = "control_change" -> "ControlChange"
      [] type = "note_on" -> "NoteOn"
      [] type = "note_off" -> "NoteOff"
      [] type = "program_change" -> "ProgramChange"
      [] type = "pitchwheel" -> "PitchWheel"
      [] OTHER -> "no variant"

FiveKinds == {"control_change", "note_on", "note_off", "program_change", "pitchwheel"}

(***************************************************************************)
(* C15: a rule with only its type set, one of the five kinds, matches      *)
(* every event of that kind, whatever its channel and other fields, and no *)
(* event of another kind.                                                  *)
(***************************************************************************)
C15_WildcardRule ==
    (Evaluated /\ match_rule.type \in FiveKinds /\ FieldsSet(match_rule) = {})
        => \A e \in Events : matched[e] <=> e.kind = VariantOf(match_rule.type)

C15_Witness ==
    /\ Evaluated
    /\ match_rule = MatchRule("pitchwheel")
    /\ \A e \in Events : matched[e] <=> e.kind = "PitchWheel"
    /\ \E e \in Events : matched[e] /\ e.channel = MaxChannel

(***************************************************************************)
(* C16: a control_change rule with value_min = a and value_max = b and no  *)
(* other constraint matches exactly the control-change events with         *)
(* a <= value <= b, and no event at all when a > b; the same for           *)
(* velocity_min and velocity_max on note_on and note_off rules.            *)
(***************************************************************************)
C16_RangeRule ==
    Evaluated =>
        /\ (/\ match_rule.type = "control_change"
            /\ FieldsSet(match_rule) = {"value_min", "value_max"})
                => /\ \A e \in Events :
                        matched[e] <=> /\ e.kind = "ControlChange"
                                       /\ match_rule.value_min <= e.value
                                       /\ e.value <= match_rule.value_max
                   /\ match_rule.value_min > match_rule.value_max
                        => \A e \in Events : ~matched[e]
        /\ (/\ match_rule.type \in {"note_on", "note_off"}
            /\ FieldsSet(match_rule) = {"velocity_min", "velocity_max"})
                => /\ \A e \in Events :
                        matched[e] <=> /\ e.kind = VariantOf(match_rule.type)
                                       /\ match_rule.velocity_min <= e.velocity
                                       /\ e.velocity <= match_rule.velocity_max
                   /\ match_rule.velocity_min > match_rule.velocity_max
                        => \A e \in Events : ~matched[e]

\* The range 1..2: value 0 is rejected, values 1 and 2 are accepted.
C16_Witness ==
    /\ Evaluated
    /\ match_rule = [MatchRule("control_change") EXCEPT !.value_min = 1, !.value_max = 2]
    /\ ~matched[ControlChange(0, 0, 0)]
    /\ matched[ControlChange(0, 0, 1)] /\ matched[ControlChange(1, 1, 2)]

(***************************************************************************)
(* C17: constraints only narrow.  If the rule with a channel constraint    *)
(* matches an event, the rule without it matches the event too; and a rule *)
(* matches exactly the events of its kind that satisfy every constraint    *)
(* set in it (an unset field constrains nothing).                          *)
(***************************************************************************)
\* Event e has field f ("value_min" and "value_max" read value, ...).
Reads(f) ==
    CASE f \in {"value_min", "value_max"} -> "value"
      [] f \in {"velocity_min", "velocity_max"} -> "velocity"
      [] OTHER -> f

\* Event e satisfies the constraint that field f of rule r states.
Satisfies(e, r, f) ==
    IF Reads(f) \notin DOMAIN e
    THEN TRUE
    ELSE CASE f \in {"value_min", "velocity_min"} -> r[f] <= e[Reads(f)]
           [] f \in {"value_max", "velocity_max"} -> e[Reads(f)] <= r[f]
           [] OTHER -> e[f] = r[f]

C17_ConstraintsOnlyNarrow ==
    Evaluated =>
        /\ \A e \in Events :
                (match_rule.channel # None /\ matched[e])
                    => matches_message([match_rule EXCEPT !.channel = None], e)
        /\ \A e \in Events :
                matched[e] <=> /\ e.kind = VariantOf(match_rule.type)
                               /\ \A f \in FieldsSet(match_rule) : Satisfies(e, match_rule, f)

\* A rule on channel 1 and note 0: of the events the rule without the
\* channel matches, those of channel 0 are rejected.
C17_Witness ==
    /\ Evaluated
    /\ match_rule = [MatchRule("note_on") EXCEPT !.channel = 1, !.note = 0]
    /\ matched[NoteOn(1, 0, 2)] /\ ~matched[NoteOn(0, 0, 2)]
    /\ matches_message([match_rule EXCEPT !.channel = None], NoteOn(0, 0, 2))

(***************************************************************************)
(* C18: no match across kinds.  matches_message is false whenever the      *)
(* event's variant differs from the rule's type, whatever the other        *)
(* fields; an unrecognized event matches no rule, so handle on it invokes  *)
(* no action, changes no state and does not fail.                          *)
(***************************************************************************)
NoMatchAcrossKinds ==
    \A r \in Rules, e \in Events :
        e.kind # VariantOf(r.type) => ~matches_message(r, e)

C18_NoMatchAcrossKinds ==
    /\ NoMatchAcrossKinds
    /\ \A device_name \in Devices, raw \in {"sysex", "clock"} :
            handle(cycle_manager, device_name, UnknownMessage(raw))
                = [cm |-> cycle_manager, log |-> <<>>, escaped |-> FALSE]
    /\ \A k \in 1..Len(dispatched) :
            LET h == dispatched[k]
            IN  /\ h.message.kind = "UnknownMessage" => h.log = <<>> /\ ~h.escaped
                /\ \A n \in 1..Len(h.log) :
                        h.message.kind = VariantOf(Entry(h.log[n].entry).match.type)

\* An unrecognized event handled after two presses of the cycling control:
\* nothing was invoked and the tracker holds what the presses left.
C18_Witness ==
    /\ Len(dispatched) = 3
    /\ Selected(1, EntryE1, 0) /\ Selected(2, EntryE1, 1)
    /\ dispatched[3].device_name = "deviceA"
    /\ dispatched[3].message = UnknownMessage("sysex")
    /\ dispatched[3].log = <<>> /\ ~dispatched[3].escaped
    /\ cycle_manager.last_key = KeyK /\ cycle_manager.indices[KeyK] = 1
    /\ "deviceA" \in listening

(***************************************************************************)
(* C19: fields that do not belong to the rule's type are ignored: a value  *)
(* range on a note_on, note_off, program_change or pitchwheel rule, a      *)
(* velocity range on a control_change rule, and control, note or program   *)
(* set on a rule of another type never change the result.                  *)
(***************************************************************************)
\* The optional fields that belong to a rule type.
OwnFields(type) ==
    CASE type = "control_change" -> {"channel", "control", "value_min", "value_max"}
      [] type \in {"note_on", "note_off"} ->
            {"channel", "note", "velocity_min", "velocity_max"}
      [] type = "program_change" -> {"channel", "program"}
      [] OTHER -> {"channel"}

\* Rule r with the fields that do not belong to its type left unset.
WithoutForeignFields(r) ==
    [f \in DOMAIN r |->
        IF f \in OptionalFields \ OwnFields(r.type) THEN None ELSE r[f]]

C19_ForeignFieldsIgnored ==
    Evaluated =>
        \A e \in Events :
            matched[e] <=> matches_message(WithoutForeignFields(match_rule), e)

\* A note_on rule for note 1 with a value range that would reject 2.
C19_Witness ==
    /\ Evaluated
    /\ match_rule = [MatchRule("note_on") EXCEPT !.note = 1, !.value_max = 0]
    /\ matched[NoteOn(0, 1, 2)] /\ ~matched[NoteOn(0, 0, 2)]

(***************************************************************************)
(* C20: signature determinism.  Two rules have the same signature if and   *)
(* only if they have the same type and the same channel, control, note and *)
(* program (each unset in both or set to the same value in both); the      *)
(* value and velocity ranges never affect the signature.                   *)
(***************************************************************************)
SameControlFields(r, q) ==
    /\ r.type = q.type
    /\ r.channel = q.channel /\ r.control = q.control
    /\ r.note = q.note /\ r.program = q.program

\* Every rule with its signature.
Signatures == {[rule |-> r, signature |-> match_rule_signature(r)] : r \in Rules}

C20_SignatureDeterminism ==
    Evaluated =>
        \A other \in Signatures :
            (other.signature = rule_signature)
                <=> SameControlFields(other.rule, match_rule)

\* The press half and the release half of control 1 have one signature.
C20_Witness ==
    /\ Evaluated
    /\ match_rule = [MatchRule("control_change") EXCEPT !.control = 1, !.value_min = 2]
    /\ rule_signature = "control_change_cc1"
    /\ match_rule_signature([MatchRule("control_change") EXCEPT !.control = 1,
                                                               !.value_max = 1])
            = rule_signature
    /\ match_rule_signature([MatchRule("control_change") EXCEPT !.channel = 1])
            # rule_signature

(***************************************************************************)
(* C25 as claimed: the router itself prints a line for every matched       *)
(* invocation, for every unknown action and for every action error (the    *)
(* latter two naming the action), and nothing for an entry that does not   *)
(* match: the lines about entries are as many as the entries handled.      *)
(***************************************************************************)
\* The lines of handle call h that are about an entry.
EntryLines(h) == SelectSeq(stdout(h), LAMBDA line : line.text # "message")

Outcomes(h, outcomes) == SelectSeq(h.log, LAMBDA item : item.outcome \in outcomes)

C25_LineForEveryInvocation ==
    \A k \in 1..Len(dispatched) :
        Len(EntryLines(dispatched[k]))
            = Len(Outcomes(dispatched[k], {"invoked", "error", "unknown"}))

(***************************************************************************)
(* C25 as amended: the router prints one line per handled event (device    *)
(* and message, matched or not), then in order one line naming the action  *)
(* for every unknown action and every action error it caught, and no line  *)
(* of its own for an entry that does not match or for an invocation that   *)
(* returned normally.                                                      *)
(***************************************************************************)
C25_LinesForEventsAndFailures ==
    \A k \in 1..Len(dispatched) :
        LET h == dispatched[k]
            failed == Outcomes(h, {"error", "unknown"})
        IN  /\ Head(stdout(h)) = EventLine(h.device_name, h.message)
            /\ Len(EntryLines(h)) = Len(failed)
            /\ \A n \in 1..Len(failed) :
                    /\ EntryLines(h)[n].action = failed[n].action
                    /\ EntryLines(h)[n].text =
                            IF failed[n].outcome = "unknown"
                            THEN "Warning: Unknown action" ELSE "Error in action"
            /\ Len(EntryLines(h)) <= Len(Matching(h))

\* The release of control 1 on deviceA: a raising action, an unknown action
\* and two invocations that return; two lines about entries.
C25_Witness ==
    /\ Len(dispatched) = 1
    /\ dispatched[1].device_name = "deviceA"
    /\ dispatched[1].message = ControlChange(0, 1, 0)
    /\ [n \in 1..4 |-> dispatched[1].log[n].outcome]
            = <<"error", "unknown", "invoked", "invoked">>
    /\ stdout(dispatched[1])
            = <<EventLine("deviceA", ControlChange(0, 1, 0)),
                ActionLine("Error in action", "ha_toggle"),
                ActionLine("Warning: Unknown action", "nonexistent")>>

(***************************************************************************)
(* C27 as claimed: for a matching entry with cycle = true and non-empty    *)
(* presets the tracker is called before the action is looked up, so the    *)
(* press is recorded (stored index and last_key) also when the action is   *)
(* unknown.                                                                *)
(***************************************************************************)
\* The entries with cycle = true and non-empty presets whose action is in
\* no registry.
UnknownCyclingRefs ==
    {ref \in {EntryRef(list, idx) : list \in DOMAIN mappings, idx \in 1..8} :
        /\ ref.idx <= Len(mappings[ref.list])
        /\ Entry(ref).cycle /\ presets_of(Entry(ref)) # <<>> /\ ~Registered(ref)}

C27_PressRecordedBeforeLookup ==
    \A ref \in UnknownCyclingRefs, device_name \in Devices, message \in Messages :
        LET r == _invoke_action(cycle_manager, device_name, message, Entry(ref))
        IN  /\ r.cm.last_key = cycle_key(device_name, Entry(ref))
            /\ cycle_key(device_name, Entry(ref)) \in DOMAIN r.cm.indices

(***************************************************************************)
(* C27 as amended: the action is looked up first.  A matching entry with   *)
(* cycle = true and non-empty presets whose action is unknown never        *)
(* reaches the tracker: the stored indices and last_key stay as they are   *)
(* and no index is selected; when the action is registered the tracker is  *)
(* called once for the entry, before the action is invoked, and the press  *)
(* is recorded.                                                            *)
(***************************************************************************)
C27_LookupBeforeTracker ==
    /\ \A ref \in UnknownCyclingRefs, device_name \in Devices, message \in Messages :
            _invoke_action(cycle_manager, device_name, message, Entry(ref))
                = Invocation(cycle_manager, "unknown", None, NoValue, <<>>, NoValue, NoValue)
    /\ \A ref \in CyclingRefs, device_name \in Devices, message \in Messages :
            LET key == cycle_key(device_name, Entry(ref))
                r == _invoke_action(cycle_manager, device_name, message, Entry(ref))
            IN  /\ r.cycle_index # None
                /\ r.cm.last_key = key
                /\ key \in DOMAIN r.cm.indices /\ r.cm.indices[key] = r.cycle_index
    /\ \A k \in 1..Len(dispatched) : \A n \in 1..Len(dispatched[k].log) :
            LET item == dispatched[k].log[n]
            IN  /\ item.entry \in UnknownCyclingRefs
                    => item.outcome = "unknown" /\ item.cycle_index = None
                /\ item.entry \in CyclingRefs => item.cycle_index # None

\* After a press of control 1 of deviceB, its release matches the cycling
\* entry with the unknown action, which selects nothing, and then the
\* cycling entry after it, which is the one that advances from 1 to 0.
C27_Witness ==
    /\ Len(dispatched) = 2
    /\ dispatched[1].device_name = "deviceB"
    /\ dispatched[1].message = ControlChange(0, 1, 127)
    /\ dispatched[2].device_name = "deviceB"
    /\ dispatched[2].message = ControlChange(0, 1, 0)
    /\ \E n \in 1..Len(dispatched[2].log) :
            /\ dispatched[2].log[n].entry = EntryRef("deviceB", 5)
            /\ dispatched[2].log[n].outcome = "unknown"
            /\ dispatched[2].log[n].cycle_index = None
    /\ dispatched[1].log[2].cycle_index = 1
    /\ dispatched[2].log[2].entry = EntryRef("deviceB", 6)
    /\ dispatched[2].log[2].cycle_index = 0

(***************************************************************************)
(* C29: the index used to select a preset is a valid position: for every   *)
(* cycling entry with n > 0 presets that a handle call reaches, the index  *)
(* get_index returned satisfies 0 <= index < n, also when entries share a  *)
(* CycleKey with preset lists of different lengths.                        *)
(***************************************************************************)
C29_SelectedIndexValid ==
    \A k \in 1..Len(dispatched) : \A n \in 1..Len(dispatched[k].log) :
        LET item == dispatched[k].log[n]
        IN  item.entry \in CyclingRefs
                => /\ 0 <= item.cycle_index
                   /\ item.cycle_index < Len(presets_of(Entry(item.entry)))

(***************************************************************************)
(* C30: one event is one press: a single call of handle changes the stored *)
(* index of any CycleKey by at most one step ((old + 1) mod n), also when  *)
(* the event matches several cycling entries.                              *)
(***************************************************************************)
\* The preset counts of the cycling entries that use the key.
KeyLengths(key) ==
    {Len(presets_of(Entry(ref))) :
        ref \in {r \in CyclingRefs :
                    /\ r.list \in {key.device, "global"}
                    /\ cycle_key(key.device, Entry(r)) = key}}

\* The stored index of the key, a key not stored yet standing at 0.
StoredIndex(cm, key) == IF key \in DOMAIN cm.indices THEN cm.indices[key] ELSE 0

AtMostOneStep(old, new, key) ==
    \/ new = old
    \/ \E n \in KeyLengths(key) : new = (old + 1) % n

C30_OneEventOnePress ==
    [][\A key \in DOMAIN cycle_manager'.indices :
            AtMostOneStep(StoredIndex(cycle_manager, key),
                          StoredIndex(cycle_manager', key), key)]_vars

(***************************************************************************)
(* C26: configuration-shape errors never reach the core: load_config fails *)
(* on a "$name" reference to an undefined preset and on a malformed rule   *)
(* (a type that is not one of the five kinds, or a range with min > max),  *)
(* so every MappingEntry it returns has a valid rule and resolved presets. *)
(***************************************************************************)
InOrder(min, max) == min # None /\ max # None => min <= max

ValidRule(r) ==
    /\ r.type \in FiveKinds
    /\ InOrder(r.value_min, r.value_max)
    /\ InOrder(r.velocity_min, r.velocity_max)

Unresolved(value) ==
    value.shape = "str" /\ value.chars # <<>> /\ Head(value.chars) = "$"

C26_ShapeErrorsAreFatal ==
    loaded # <<>> /\ loaded.raises = NoValue
        => /\ ValidRule(loaded.value.match)
           /\ \A k \in DOMAIN loaded.value.params : ~Unresolved(loaded.value.params[k])

(***************************************************************************)
(* C21: clean shutdown: once stop has completed no listener delivers any   *)
(* further event to the broker, and a handle call that is in progress when *)
(* stop is requested is left to run to its end.                            *)
(***************************************************************************)
C21_CleanShutdown ==
    [][/\ manager.stop = "completed" => delivered' = delivered
       /\ manager'.stop # manager.stop => pc' = pc /\ current' = current]_vars

(***************************************************************************)
(* C22: a listener blocked on one device never stalls dispatch for         *)
(* another: every event that arrives from a connected device is eventually *)
(* passed to the callback, however long the other listeners stay blocked.  *)
(***************************************************************************)
\* The n-th message of device d has been passed to the callback.
PassedOn(d, n) == \E k \in 1..Len(delivered[d]) : delivered[d][k].seq = n

C22_EveryEventIsHandled ==
    \A d \in Connected : \A n \in 1..MaxArrivals :
        (arrived[d] >= n) ~> (PassedOn(d, n) \/ ~ports[d].connected)

\* What holds of it: a message waits only for the thread of its own device;
\* it is passed on unless that listener has ended.
BlockedListenerStallsNoOther ==
    \A d \in Connected : \A n \in 1..MaxArrivals :
        (arrived[d] >= n) ~> (PassedOn(d, n) \/ pc[d] = "disconnected")

(***************************************************************************)
(* C23: a listener-level error on one device stops only that device's      *)
(* event source: the step that ends one listener leaves the threads, ports *)
(* and tasks of the others and the manager as they are, a listener with a  *)
(* waiting message can read it whatever has ended, run returns only when   *)
(* every listener task has ended, and without a stop only when every       *)
(* listener thread has.                                                    *)
(***************************************************************************)
C23_ErrorStopsOnlyItsDevice ==
    /\ [][\A d \in Connected :
            pc[d] # "disconnected" /\ pc'[d] = "disconnected"
                => /\ manager' = manager
                   /\ \A e \in Connected \ {d} :
                        /\ pc'[e] = pc[e] /\ ports'[e] = ports[e]
                        /\ tasks'[e] = tasks[e] /\ delivered'[e] = delivered[e]]_vars
    /\ [](\A e \in Connected :
            pc[e] = "reading" /\ ports[e].pending # <<>> => ENABLED Read(e))
    /\ [](manager.run = "returned" => \A d \in Connected : tasks[d] # "pending")
    /\ [](manager.run = "returned" /\ manager.stop = "idle"
            => \A d \in Connected : pc[d] = "disconnected")

\* deviceA was unplugged before it sent anything and its task has ended;
\* deviceB's listener is inside the callback for its second message and run
\* is still waiting.
C23_Witness ==
    /\ ~ports["deviceA"].connected /\ pc["deviceA"] = "disconnected"
    /\ tasks["deviceA"] = "done" /\ arrived["deviceA"] = 0
    /\ pc["deviceB"] = "handle" /\ Len(delivered["deviceB"]) = 2
    /\ tasks["deviceB"] = "pending"
    /\ manager = DeviceManager(TRUE, "gather", "idle")

(***************************************************************************)
(* C24: per-device ordering: each listener calls the callback once per     *)
(* message it received and in the order of arrival on its device.          *)
(***************************************************************************)
C24_ArrivalOrderPerDevice ==
    \A d \in Connected :
        /\ \A k \in 1..Len(delivered[d]) : delivered[d][k].seq = k
        /\ Len(delivered[d]) + Len(ports[d].pending) = arrived[d]
        /\ \A k \in 1..Len(ports[d].pending) :
                ports[d].pending[k].seq = Len(delivered[d]) + k

\* Three messages of deviceA were passed on in order while a message of
\* deviceB is still waiting.
C24_Witness ==
    /\ [k \in 1..Len(delivered["deviceA"]) |-> delivered["deviceA"][k].seq] = <<1, 2, 3>>
    /\ Len(ports["deviceB"].pending) = 1
    /\ delivered["deviceB"] = <<>>

(***************************************************************************)
(* C28: every concurrent execution of the get_index calls of different     *)
(* listener threads, interleaved at the reads and writes of indices and    *)
(* last_key, leaves the stored indices and last_key and returns indices    *)
(* equal to those of some serial order of the same calls.                  *)
(***************************************************************************)
\* The calls made one after the other, first that of thread a, then that of
\* thread b, from the tracker the calls started with, end as this state.
SerialOrder(a, b) ==
    LET first == get_index(start, KeyOf(a), frame[a].preset_count)
        second == get_index(first.cm, KeyOf(b), frame[b].preset_count)
    IN  /\ cycle_manager = second.cm
        /\ frame[a].ret = first.ret
        /\ frame[b].ret = second.ret

C28_EquivalentToSerialOrder ==
    (\A d \in Connected : pc[d] = "returned")
        => \/ SerialOrder("deviceA", "deviceB")
           \/ SerialOrder("deviceB", "deviceA")

(***************************************************************************)
(* C31: reset(K) makes K unseen again and touches nothing else: it removes *)
(* only K's stored index, the indices of all other keys stay as they are,  *)
(* and the next get_index(K, n) with n > 0 after a reset(K) returns 0 in   *)
(* every state, also when K was the last key pressed.                      *)
(***************************************************************************)
\* Call j is the first get_index(key, n) with n > 0 after call i.
NextAdvance(i, j, key) ==
    /\ i < j
    /\ calls[j].op = "get_index" /\ calls[j].key = key
    /\ calls[j].preset_count > 0
    /\ \A m \in (i + 1)..(j - 1) :
            ~(/\ calls[m].op = "get_index" /\ calls[m].key = key
              /\ calls[m].preset_count > 0)

C31_ResetMakesUnseen ==
    /\ \A key \in TrackerKeys :
            LET r == reset(cycle_manager, key)
            IN  /\ key \notin DOMAIN r.indices
                /\ DOMAIN r.indices = (DOMAIN cycle_manager.indices) \ {key}
                /\ \A other \in DOMAIN r.indices :
                        r.indices[other] = cycle_manager.indices[other]
    /\ \A i \in 1..Len(calls), j \in 1..Len(calls) :
            (calls[i].op = "reset" /\ NextAdvance(i, j, calls[i].key))
                => calls[j].ret = 0

(***************************************************************************)
(* C32: in every ActionContext the router builds, cycle_index and          *)
(* preset_value are both absent or both present; they are present exactly  *)
(* when the entry has cycle = true and non-empty presets, and then         *)
(* preset_value = presets[cycle_index]; the context carries the dispatched *)
(* event and the name of the device it came from.                          *)
(***************************************************************************)
C32_ContextCycleFields ==
    \A k \in 1..Len(dispatched) : \A n \in 1..Len(dispatched[k].log) :
        LET item    == dispatched[k].log[n]
            ctx     == item.ctx
            presets == presets_of(Entry(item.entry))
        IN  Called(item)
                => /\ (ctx.cycle_index = None) <=> (ctx.preset_value = NoValue)
                   /\ (ctx.cycle_index # None)
                          <=> (Entry(item.entry).cycle /\ presets # <<>>)
                   /\ ctx.cycle_index # None
                          => /\ ctx.cycle_index + 1 \in 1..Len(presets)
                             /\ ctx.preset_value = presets[ctx.cycle_index + 1]
                   /\ ctx.message = dispatched[k].message
                   /\ ctx.device_name = dispatched[k].device_name

\* Two presses of the cycling control 1 of deviceA build a context with
\* index 1 and the second preset; control 2 then builds contexts for entries
\* that have presets and do not cycle, with neither field.
C32_Witness ==
    /\ Len(dispatched) = 3
    /\ Selected(1, EntryE1, 0) /\ Selected(2, EntryE1, 1)
    /\ \E n \in 1..Len(dispatched[2].log) :
            /\ dispatched[2].log[n].entry = EntryE1
            /\ dispatched[2].log[n].ctx
                  = ActionContext(ha_client, ControlChange(0, 1, 127), "deviceA", 1, "b")
    /\ dispatched[3].device_name = "deviceA"
    /\ dispatched[3].message = ControlChange(0, 2, 127)
    /\ dispatched[3].log[2].entry = EntryRef("deviceA", 6)
    /\ presets_of(Entry(EntryRef("deviceA", 6))) = <<"dim", "bright">>
    /\ dispatched[3].log[2].ctx
          = ActionContext(ha_client, ControlChange(0, 2, 127), "deviceA", None, NoValue)

(***************************************************************************)
(* C34: preset fallback of the built-in actions.  When ha_brightness,      *)
(* ha_color or ha_color_temp is dispatched by the broker for an entry that *)
(* does not cycle (cycle = false) and whose params hold a non-empty        *)
(* presets list, the action uses the first preset of that list.            *)
(***************************************************************************)
PresetActions == {"ha_brightness", "ha_color", "ha_color_temp"}

C34_FirstPresetFallback ==
    \A k \in 1..Len(dispatched) : \A n \in 1..Len(dispatched[k].log) :
        LET item    == dispatched[k].log[n]
            presets == presets_of(Entry(item.entry))
        IN  (/\ item.action \in PresetActions
             /\ ~Entry(item.entry).cycle
             /\ presets # <<>>
             /\ item.outcome = "invoked")
                => item.effect.preset = presets[1]

(***************************************************************************)
(* C33: after load_builtin_actions() and discover_actions(actions_dir) the *)
(* registry handed to the broker holds every built-in action (ha_toggle,   *)
(* ha_brightness, ha_color, ha_color_temp, shell) and every plugin action  *)
(* that loaded, whether or not the actions directory exists and whether or *)
(* not a plugin file failed to load.                                       *)
(***************************************************************************)
\* cli.py:113
builtin == {"ha_toggle", "ha_brightness", "ha_color", "ha_color_temp", "shell"}

C33_RegistryHasBuiltinsAndPlugins ==
    startup.at = "broker"
        => /\ builtin \subseteq DOMAIN startup.actions
           /\ \A i \in 1..Len(actions_dir.files) :
                Head(actions_dir.files[i].name) # "_"
                    => \A n \in 1..Len(actions_dir.files[i].registers) :
                            actions_dir.files[i].registers[n] \in DOMAIN startup.actions

(***************************************************************************)
(* C35: the cycle tracker refines the legacy single-device tracker.  For   *)
(* every sequence of advance calls with preset counts > 0,                 *)
(* CycleManager.get_index keyed by (device, signature) and the legacy      *)
(* CycleState.advance keyed by control number return the same index at     *)
(* every step, the keys mapped one to one.                                 *)
(***************************************************************************)
C35_SameIndexAsLegacy ==
    /\ \A c \in LegacyControls, e \in LegacyControls :
            KeyOfControl(c) = KeyOfControl(e) => c = e
    /\ \A i \in 1..Len(advanced) :
            /\ advanced[i].preset_count > 0
            /\ advanced[i].tracker = advanced[i].legacy
    /\ \A c \in LegacyControls :
            /\ c \in DOMAIN cycle_state.indices
                    <=> KeyOfControl(c) \in DOMAIN cycle_manager.indices
            /\ c \in DOMAIN cycle_state.indices
                    => cycle_state.indices[c] = cycle_manager.indices[KeyOfControl(c)]

\* Control 1 pressed three times over two presets (0, 1, wrapping to 0),
\* control 2 in between, then control 1 again, kept at its index.
C35_Witness ==
    /\ Len(advanced) = 5
    /\ \A i \in {1, 2, 3, 5} : advanced[i].control = 1 /\ advanced[i].preset_count = 2
    /\ advanced[4].control = 2
    /\ [i \in 1..5 |-> advanced[i].legacy] = <<0, 1, 0, 0, 0>>
    /\ [i \in 1..5 |-> advanced[i].tracker] = <<0, 1, 0, 0, 0>>

(***************************************************************************)
(* C36: for every device name, also for a device that is itself named      *)
(* "global", each mapping entry is evaluated at most once per event, so no *)
(* entry's action is invoked twice for one event.                          *)
(***************************************************************************)
C36_EntryInvokedOncePerEvent ==
    \A k \in 1..Len(dispatched) :
        \A n \in 1..Len(dispatched[k].log), m \in 1..Len(dispatched[k].log) :
            dispatched[k].log[n].entry = dispatched[k].log[m].entry => n = m

(***************************************************************************)
(* C37: wizard round trip.  The match rule generate_config_block writes    *)
(* for a captured control (type, channel, identifier) matches the events   *)
(* of that control on the captured channel and no event of the same        *)
(* control on any other channel, for every captured channel.               *)
(***************************************************************************)
\* The messages captured as the control, on whatever channel.
EventsOfControl(control) ==
    {msg \in WizardMessages :
        /\ captured_as(msg) # Ignored
        /\ captured_as(msg).key[1] = control.msg_type
        /\ captured_as(msg).key[3] = control.identifier}

C37_WizardRoundTrip ==
    config_block.written
        => \A i \in 1..Len(controls) :
                \A rule \in {parse_match_rule(safe_load(config_block.mappings[i].match))} :
                \A msg \in EventsOfControl(controls[i]) :
                    matches_message(rule, msg) <=> (msg.channel = controls[i].channel)

====
